---- MODULE Spec2Model ----
(* Local-first data cache and sync coordinator of awesome-popular-repos:     *)
(* the localStorage wrapper (src/js/utils/storage.js), the Pages Functions   *)
(* that front the D1 tables (functions/api/*.js) and the admin page's        *)
(* coordinator functions and handlers (src/js/admin.js, D1 version).         *)
(*                                                                           *)
(* Text is a sequence of one-character strings, so that toLowerCase, the     *)
(* slug pattern and Date.now().toString() are computed and not assumed.      *)
EXTENDS Integers, Sequences, FiniteSets, TLC

VARIABLES store, db, now, page, runs, flow, last

vars == <<store, db, now, page, runs, flow, last>>

(* ------------------------------------------------------------------------ *)
(* Bounds of the model                                                        *)
(* ------------------------------------------------------------------------ *)

\* The clock (Date.now()) runs from 1 to MaxClock.
MaxClock == 3

\* Clock readings per calendar day (toISOString().split('T')[0] of the clock).
TicksPerDay == 2

\* Handlers the operator runs in one session of the admin page.
MaxRuns == 1

\* Clicks of the sync button allowed beyond MaxRuns, each right after a sync
MaxResyncs == 1

(* ------------------------------------------------------------------------ *)
(* Text                                                                       *)
(* ------------------------------------------------------------------------ *)

Digits == <<"0", "1", "2", "3", "4", "5", "6", "7", "8", "9">>

\* Number.prototype.toString() of a non-negative integer.
RECURSIVE toStringNat(_)
toStringNat(n) ==
  IF n < 10 THEN <<Digits[n + 1]>>
  ELSE toStringNat(n \div 10) \o <<Digits[(n % 10) + 1]>>

LowerChar(c) ==
  CASE c = "A" -> "a"
    [] c = "B" -> "b"
    [] c = "C" -> "c"
    [] c = "T" -> "t"
    [] c = "U" -> "u"
    [] OTHER -> c

\* String.prototype.toLowerCase()
toLowerCase(s) == [i \in 1..Len(s) |-> LowerChar(s[i])]

\* String.prototype.trim(): blanks are dropped at both ends.
RECURSIVE trimStart(_)
trimStart(s) == IF s # <<>> /\ Head(s) = " " THEN trimStart(Tail(s)) ELSE s

RECURSIVE trimEnd(_)
trimEnd(s) ==
  IF s # <<>> /\ s[Len(s)] = " " THEN trimEnd(SubSeq(s, 1, Len(s) - 1)) ELSE s

trim(s) == trimEnd(trimStart(s))

\* s.startsWith(p), s.endsWith(p)
startsWith(s, p) == Len(p) <= Len(s) /\ SubSeq(s, 1, Len(p)) = p

endsWith(s, p) == Len(p) <= Len(s) /\ SubSeq(s, Len(s) - Len(p) + 1, Len(s)) = p

\* s.replace(/^p/, '') and s.replace(/p$/, '') of a literal p
dropPrefix(s, p) == IF startsWith(s, p) THEN SubSeq(s, Len(p) + 1, Len(s)) ELSE s

dropSuffix(s, p) == IF endsWith(s, p) THEN SubSeq(s, 1, Len(s) - Len(p)) ELSE s

\* s.split(sep).filter(Boolean): the non-empty pieces between separators
RECURSIVE splitFilter(_, _, _)
splitFilter(s, sep, piece) ==
  IF s = <<>> THEN (IF piece = <<>> THEN <<>> ELSE <<piece>>)
  ELSE IF Head(s) = sep
       THEN (IF piece = <<>> THEN <<>> ELSE <<piece>>) \o splitFilter(Tail(s), sep, <<>>)
       ELSE splitFilter(Tail(s), sep, Append(piece, Head(s)))

SlugChars == {"a", "b", "c", "t", "u", "0", "1", "2", "3", "4", "5", "6", "7", "8", "9", "-"}

\* /^[a-z0-9-]+$/.test(slug), over the letters the model uses
\* Variant: the pattern lets a blank through.
SlugFormatOk_AllowsBlank(slug) ==
  slug # <<>> /\ \A i \in 1..Len(slug) : slug[i] \in SlugChars \cup {" "}

SlugFormatOk(slug) == slug # <<>> /\ \A i \in 1..Len(slug) : slug[i] \in SlugChars

\* Code unit order of the characters the model uses (BINARY collation).
CharCode(c) ==
  CASE c = " " -> 32 [] c = "-" -> 45
    [] c = "0" -> 48 [] c = "1" -> 49 [] c = "2" -> 50 [] c = "3" -> 51
    [] c = "4" -> 52 [] c = "5" -> 53 [] c = "6" -> 54 [] c = "7" -> 55
    [] c = "8" -> 56 [] c = "9" -> 57
    [] c = "A" -> 65 [] c = "B" -> 66 [] c = "C" -> 67 [] c = "T" -> 84
    [] c = "U" -> 85
    [] c = "a" -> 97 [] c = "b" -> 98 [] c = "c" -> 99 [] c = "t" -> 116
    [] c = "u" -> 117
    [] OTHER -> 127

RECURSIVE TextLeq(_, _)
TextLeq(a, b) ==
  IF a = <<>> THEN TRUE
  ELSE IF b = <<>> THEN FALSE
  ELSE IF Head(a) = Head(b) THEN TextLeq(Tail(a), Tail(b))
  ELSE CharCode(Head(a)) < CharCode(Head(b))

(* ------------------------------------------------------------------------ *)
(* Objects: a JS object is a function from its keys; {...a, ...b} is Spread  *)
(* ------------------------------------------------------------------------ *)

Has(o, k) == k \in DOMAIN o

Spread(a, b) ==
  [k \in DOMAIN a \cup DOMAIN b |-> IF k \in DOMAIN b THEN b[k] ELSE a[k]]

\* o.k || dflt for a text field (absent and '' are falsy)
TextOr(o, k, dflt) == IF Has(o, k) /\ o[k] # <<>> THEN o[k] ELSE dflt

\* o.k || dflt for a numeric field (absent and 0 are falsy)
NumOr(o, k, dflt) == IF Has(o, k) /\ o[k] # 0 THEN o[k] ELSE dflt

\* array.findIndex(e => e.id === id), 0 for -1
findIndex(s, id) ==
  IF \E i \in 1..Len(s) : s[i].id = id
  THEN CHOOSE i \in 1..Len(s) : s[i].id = id /\ \A j \in 1..(i - 1) : s[j].id # id
  ELSE 0

Range(s) == {s[i] : i \in 1..Len(s)}

IdsOf(rows) == {rows[i].id : i \in 1..Len(rows)}

\* new Date().toISOString().split('T')[0] at clock reading t, as a day number (from 1)
today(t) == 1 + (t \div TicksPerDay)

(* ------------------------------------------------------------------------ *)
(* Local Cache Store: src/js/utils/storage.js over localStorage              *)
(* ------------------------------------------------------------------------ *)

KEYS ==
  [PROJECTS |-> "awesome_repos_projects",
   CATEGORIES |-> "awesome_repos_categories",
   TAGS |-> "awesome_repos_tags",
   FAVORITES |-> "awesome_repos_favorites",
   SETTINGS |-> "awesome_repos_settings",
   ADMIN_AUTH |-> "awesome_repos_admin_auth",
   DATA_VERSION |-> "awesome_repos_data_version"]

CURRENT_VERSION == <<"1", ".", "0", ".", "0">>

\* localStorage is modelled by the parsed value of each key's text; the keys
\* whose text JSON.parse rejects are listed under UNPARSABLE (the value kept
\* for such a key is what a lenient parser would make of the text).
UNPARSABLE == "unparsable"

Unparsable(st) == IF UNPARSABLE \in DOMAIN st THEN st[UNPARSABLE] ELSE {}

\* Variant: a lenient parser, which returns what it made of the text.
get_Lenient(st, key, defaultValue) ==
  IF key \in DOMAIN st THEN st[key] ELSE defaultValue

\* get(key, defaultValue) on the storage st
get(st, key, defaultValue) ==
  IF key \notin DOMAIN st THEN defaultValue
  ELSE IF key \in Unparsable(st) THEN defaultValue
  ELSE st[key]

\* set(key, value): the storage after the write
set(st, key, value) ==
  LET written == [k \in DOMAIN st \cup {key} |-> IF k = key THEN value ELSE st[k]]
  IN IF UNPARSABLE \in DOMAIN st
     THEN [written EXCEPT ![UNPARSABLE] = @ \ {key}]
     ELSE written

getProjects(st) == get(st, KEYS.PROJECTS, <<>>)

setProjects(st, projects) == set(st, KEYS.PROJECTS, projects)

getCategories(st) == get(st, KEYS.CATEGORIES, <<>>)

setCategories(st, categories) == set(st, KEYS.CATEGORIES, categories)

getTags(st) == get(st, KEYS.TAGS, <<>>)

setTags(st, tags) == set(st, KEYS.TAGS, tags)

getFavorites(st) == get(st, KEYS.FAVORITES, <<>>)

\* The object addProject pushes: id and created_at kept when truthy,
\* updated_at always rewritten.
addProjectEntity(project, t) ==
  Spread(project,
         [id |-> TextOr(project, "id", toStringNat(t)),
          created_at |-> NumOr(project, "created_at", today(t)),
          updated_at |-> today(t)])

\* Variant: the pushed entity is never written back with setProjects.
addProject_NotSaved(st, project, t) == st

addProject(st, project, t) ==
  setProjects(st, Append(getProjects(st), addProjectEntity(project, t)))

\* Variant: an id that is not found is added.
updateProject_Upsert(st, id, updates, t) ==
  LET projects == getProjects(st)
      index == findIndex(projects, id)
  IN IF index # 0
     THEN setProjects(st,
            [projects EXCEPT
               ![index] = Spread(Spread(projects[index], updates),
                                 [updated_at |-> today(t)])])
     ELSE setProjects(st,
            Append(projects, Spread(Spread([id |-> id], updates),
                                    [updated_at |-> today(t)])))

\* Variant: the merged entry is stamped as a new one, created_at included.
updateProject_Recreated(st, id, updates, t) ==
  LET projects == getProjects(st)
      index == findIndex(projects, id)
  IN IF index # 0
     THEN setProjects(st,
            [projects EXCEPT
               ![index] = Spread(Spread(projects[index], updates),
                                 [created_at |-> today(t), updated_at |-> today(t)])])
     ELSE st

updateProject(st, id, updates, t) ==
  LET projects == getProjects(st)
      index == findIndex(projects, id)
  IN IF index # 0
     THEN setProjects(st,
            [projects EXCEPT
               ![index] = Spread(Spread(projects[index], updates),
                                 [updated_at |-> today(t)])])
     ELSE st

\* JavaScript's null
null == [null |-> TRUE]

\* What updateProject returns: the merged entry, or null
updateProjectResult(st, id, updates, t) ==
  LET projects == getProjects(st)
      index == findIndex(projects, id)
  IN IF index # 0
     THEN Spread(Spread(projects[index], updates), [updated_at |-> today(t)])
     ELSE null

\* Variant: projects.splice(projects.findIndex(...), 1), which removes the
\* last entry when the id is not found.
deleteProject_SpliceIndex(st, id) ==
  LET projects == getProjects(st)
      index == findIndex(projects, id)
      gone == IF index # 0 THEN index ELSE Len(projects)
  IN setProjects(st,
       IF projects = <<>> THEN <<>>
       ELSE [i \in 1..(Len(projects) - 1) |->
               IF i < gone THEN projects[i] ELSE projects[i + 1]])

\* Variant: the favourite of the deleted project is dropped with it.
deleteProject_PrunesFavorite(st, id) ==
  set(setProjects(st, SelectSeq(getProjects(st), LAMBDA p : p.id # id)),
      KEYS.FAVORITES, SelectSeq(getFavorites(st), LAMBDA f : f # id))

deleteProject(st, id) ==
  setProjects(st, SelectSeq(getProjects(st), LAMBDA p : p.id # id))

toggleFavorite(st, projectId) ==
  LET favorites == getFavorites(st)
  IN set(st, KEYS.FAVORITES,
         IF \E i \in 1..Len(favorites) : favorites[i] = projectId
         THEN SelectSeq(favorites, LAMBDA f : f # projectId)
         ELSE Append(favorites, projectId))

defaultSettings == [theme |-> "dark", sortBy |-> "stars", sortOrder |-> "desc"]

getSettings(st) == get(st, KEYS.SETTINGS, defaultSettings)

\* Variant: the object given replaces the stored one.
setSettings_Replace(st, settings) == set(st, KEYS.SETTINGS, settings)

setSettings(st, settings) == set(st, KEYS.SETTINGS, Spread(getSettings(st), settings))

\* Variant: the default data is written on every call.
initStorage_EveryTime(st, defaultData) ==
  set(setTags(setCategories(setProjects(st, defaultData.projects),
                            defaultData.categories),
              defaultData.tags),
      KEYS.DATA_VERSION, CURRENT_VERSION)

initStorage(st, defaultData) ==
  IF get(st, KEYS.DATA_VERSION, <<>>) # CURRENT_VERSION
  THEN LET s1 == IF Has(defaultData, "projects")
                 THEN setProjects(st, defaultData.projects) ELSE st
           s2 == IF Has(defaultData, "categories")
                 THEN setCategories(s1, defaultData.categories) ELSE s1
           s3 == IF Has(defaultData, "tags")
                 THEN setTags(s2, defaultData.tags) ELSE s2
       IN set(s3, KEYS.DATA_VERSION, CURRENT_VERSION)
  ELSE st

(* ------------------------------------------------------------------------ *)
(* Remote store: the D1 tables behind the Pages Functions                     *)
(* A table is the sequence of its rows in rowid order.  fault is what goes   *)
(* wrong with one request: "none", "unauth" (verifyAuth refuses the          *)
(* credentials), "db" (the D1 statement throws).  A handler yields the table *)
(* state after it and the JSON body of its response.                         *)
(* ------------------------------------------------------------------------ *)

HasRow(rows, id) == \E i \in 1..Len(rows) : rows[i].id = id

\* unauthorizedResponse(): 401 with a JSON body
unauthorizedResponse == [error |-> "unauthorized"]

\* jsonResponse({ error, details }, 500)
errorResponse == [error |-> "failed"]

\* ORDER BY stars DESC, rows of equal stars in rowid order
RECURSIVE InsertByStars(_, _)
InsertByStars(sorted, row) ==
  IF sorted = <<>> THEN <<row>>
  ELSE IF Head(sorted).stars >= row.stars
       THEN <<Head(sorted)>> \o InsertByStars(Tail(sorted), row)
       ELSE <<row>> \o sorted

RECURSIVE OrderByStarsDesc(_)
OrderByStarsDesc(rows) ==
  IF rows = <<>> THEN <<>>
  ELSE InsertByStars(OrderByStarsDesc(SubSeq(rows, 1, Len(rows) - 1)), rows[Len(rows)])

\* ORDER BY name, rows of equal name in rowid order
RECURSIVE InsertByName(_, _)
InsertByName(sorted, row) ==
  IF sorted = <<>> THEN <<row>>
  ELSE IF TextLeq(Head(sorted).name, row.name)
       THEN <<Head(sorted)>> \o InsertByName(Tail(sorted), row)
       ELSE <<row>> \o sorted

RECURSIVE OrderByName(_)
OrderByName(rows) ==
  IF rows = <<>> THEN <<>>
  ELSE InsertByName(OrderByName(SubSeq(rows, 1, Len(rows) - 1)), rows[Len(rows)])

\* String.prototype.split(sep)
RECURSIVE split(_, _, _)
split(s, sep, piece) ==
  IF s = <<>> THEN <<piece>>
  ELSE IF Head(s) = sep THEN <<piece>> \o split(Tail(s), sep, <<>>)
  ELSE split(Tail(s), sep, Append(piece, Head(s)))

\* JSON.parse of the text of a tags column: an array of strings is "[", the
\* strings in double quotes with "," between them, "]"; on any other text of
\* the kind met here JSON.parse throws (ok FALSE).
JSONparse(text) ==
  IF Len(text) < 2 \/ text[1] # "[" \/ text[Len(text)] # "]"
  THEN [ok |-> FALSE, value |-> <<>>]
  ELSE LET inner == SubSeq(text, 2, Len(text) - 1)
           pieces == IF inner = <<>> THEN <<>> ELSE split(inner, ",", <<>>)
           quoted(x) == /\ Len(x) >= 2
                        /\ x[1] = "\"" /\ x[Len(x)] = "\""
                        /\ \A i \in 2..(Len(x) - 1) : x[i] # "\""
       IN IF \A i \in 1..Len(pieces) : quoted(pieces[i])
          THEN [ok |-> TRUE,
                value |-> [i \in 1..Len(pieces) |->
                             SubSeq(pieces[i], 2, Len(pieces[i]) - 1)]]
          ELSE [ok |-> FALSE, value |-> <<>>]

\* GET /api/projects (no credentials needed).  A row written by the handlers
\* below has a tags text made by JSON.stringify and is shown here without it;
\* a row that carries a tags column has its text decoded inside the try
\* block, so that a throw of JSON.parse is answered like a throw of D1.
projectsGet(d, fault) ==
  LET rows == OrderByStarsDesc(d.projects)
      decoded(row) ==
        IF ~Has(row, "tags") THEN [ok |-> TRUE, row |-> row]
        ELSE IF row.tags = <<>> THEN [ok |-> TRUE, row |-> row]
        ELSE [ok |-> JSONparse(row.tags).ok,
              row |-> [row EXCEPT !.tags = JSONparse(row.tags).value]]
  IN IF fault = "db" \/ \E i \in 1..Len(rows) : ~decoded(rows[i]).ok
     THEN [db |-> d, body |-> errorResponse]
     ELSE [db |-> d, body |-> [projects |-> [i \in 1..Len(rows) |-> decoded(rows[i]).row]]]

\* The row INSERT INTO projects binds
projectRow(project, id, t) ==
  [id |-> id,
   name |-> project.name,
   owner |-> project.owner,
   stars |-> NumOr(project, "stars", 0),
   category |-> TextOr(project, "category", <<>>),
   created_at |-> NumOr(project, "created_at", today(t)),
   updated_at |-> today(t)]

\* POST /api/projects
projectsPost(d, project, fault, t) ==
  LET id == TextOr(project, "id", toStringNat(t))
  IN IF fault = "unauth" THEN [db |-> d, body |-> unauthorizedResponse]
     ELSE IF fault = "db" \/ HasRow(d.projects, id)
               \/ ~Has(project, "name") \/ ~Has(project, "owner")
          THEN [db |-> d, body |-> errorResponse]
          ELSE [db |-> [d EXCEPT !.projects = Append(@, projectRow(project, id, t))],
                body |-> [success |-> TRUE,
                          project |-> Spread(project, [id |-> id])]]

\* PUT /api/projects: body { id, ...updates }
projectsPut(d, req, fault, t) ==
  IF fault = "unauth" THEN [db |-> d, body |-> unauthorizedResponse]
  ELSE IF TextOr(req, "id", <<>>) = <<>> THEN [db |-> d, body |-> errorResponse]
  ELSE IF fault = "db" \/ ~Has(req, "name") \/ ~Has(req, "owner")
       THEN [db |-> d, body |-> errorResponse]
       ELSE [db |-> [d EXCEPT !.projects =
                       [i \in 1..Len(@) |->
                          IF @[i].id = req.id
                          THEN [@[i] EXCEPT
                                  !.name = req.name,
                                  !.owner = req.owner,
                                  !.stars = NumOr(req, "stars", 0),
                                  !.category = TextOr(req, "category", <<>>),
                                  !.updated_at = today(t)]
                          ELSE @[i]]],
             body |-> [success |-> TRUE]]

\* DELETE /api/projects?id=...
projectsDelete(d, id, fault) ==
  IF fault = "unauth" THEN [db |-> d, body |-> unauthorizedResponse]
  ELSE IF id = <<>> THEN [db |-> d, body |-> errorResponse]
  ELSE IF fault = "db" THEN [db |-> d, body |-> errorResponse]
       ELSE [db |-> [d EXCEPT !.projects = SelectSeq(@, LAMBDA r : r.id # id)],
             body |-> [success |-> TRUE]]

\* GET /api/categories (no credentials needed)
categoriesGet(d, fault) ==
  IF fault = "db" THEN [db |-> d, body |-> errorResponse]
  ELSE [db |-> d, body |-> [categories |-> OrderByName(d.categories)]]

\* POST /api/categories
categoriesPost(d, category, fault, t) ==
  LET id == TextOr(category, "id", TextOr(category, "slug", toStringNat(t)))
  IN IF fault = "unauth" THEN [db |-> d, body |-> unauthorizedResponse]
     ELSE IF fault = "db" \/ HasRow(d.categories, id) \/ ~Has(category, "name")
          THEN [db |-> d, body |-> errorResponse]
          ELSE [db |-> [d EXCEPT !.categories =
                          Append(@, [id |-> id,
                                     name |-> category.name,
                                     slug |-> TextOr(category, "slug", id),
                                     description |-> TextOr(category, "description", <<>>)])],
                body |-> [success |-> TRUE,
                          category |-> Spread(category, [id |-> id])]]

\* PUT and DELETE /api/categories: functions/api/categories.js exports no
\* handler for them, so the answer carries no success field.
categoriesNoHandler(d) == [db |-> d, body |-> errorResponse]

\* INSERT OR REPLACE: the row of that id is dropped and appended anew
insertOrReplace(rows, row) ==
  Append(SelectSeq(rows, LAMBDA r : r.id # row.id), row)

\* POST /api/sync, the statements of the ids in failing throw
RECURSIVE syncCategories(_, _, _)
syncCategories(rows, categories, failing) ==
  IF categories = <<>> THEN [rows |-> rows, n |-> 0]
  ELSE LET c == Head(categories)
           bad == c.id \in failing \/ ~Has(c, "name")
           next == IF bad THEN rows
                   ELSE insertOrReplace(rows,
                          [id |-> c.id,
                           name |-> c.name,
                           slug |-> TextOr(c, "slug", c.id),
                           description |-> TextOr(c, "description", <<>>)])
           rest == syncCategories(next, Tail(categories), failing)
       IN [rows |-> rest.rows, n |-> rest.n + (IF bad THEN 0 ELSE 1)]

\* Variant: the loop ends at the first statement that fails.
RECURSIVE syncProjects_StopAtFailure(_, _, _, _)
syncProjects_StopAtFailure(rows, projects, failing, t) ==
  IF projects = <<>> THEN [rows |-> rows, n |-> 0]
  ELSE LET p == Head(projects)
           bad == p.id \in failing \/ ~Has(p, "name") \/ ~Has(p, "owner")
           next == insertOrReplace(rows,
                     [projectRow(p, p.id, t) EXCEPT
                        !.updated_at = NumOr(p, "updated_at", today(t))])
           rest == syncProjects_StopAtFailure(next, Tail(projects), failing, t)
       IN IF bad THEN [rows |-> rows, n |-> 0]
          ELSE [rows |-> rest.rows, n |-> rest.n + 1]

RECURSIVE syncProjects(_, _, _, _)
syncProjects(rows, projects, failing, t) ==
  IF projects = <<>> THEN [rows |-> rows, n |-> 0]
  ELSE LET p == Head(projects)
           bad == p.id \in failing \/ ~Has(p, "name") \/ ~Has(p, "owner")
           next == IF bad THEN rows
                   ELSE insertOrReplace(rows,
                          [projectRow(p, p.id, t) EXCEPT
                             !.updated_at = NumOr(p, "updated_at", today(t))])
           rest == syncProjects(next, Tail(projects), failing, t)
       IN [rows |-> rest.rows, n |-> rest.n + (IF bad THEN 0 ELSE 1)]

syncPost(d, req, fault, failing, t) ==
  IF fault = "unauth" THEN [db |-> d, body |-> unauthorizedResponse]
  ELSE IF fault = "db" THEN [db |-> d, body |-> errorResponse]
  ELSE LET cs == syncCategories(d.categories, req.categories, failing)
           ps == syncProjects(d.projects, req.projects, failing, t)
       IN [db |-> [projects |-> ps.rows, categories |-> cs.rows],
           body |-> [success |-> TRUE,
                     results |-> [projects |-> ps.n, categories |-> cs.n]]]

(* ------------------------------------------------------------------------ *)
(* Sync Coordinator: the ...Api functions of src/js/admin.js.  resp is what  *)
(* apiRequest gives: it throws (threw) or returns the parsed JSON body,      *)
(* whatever the HTTP status.  Each yields the storage after the call and     *)
(* the value returned.                                                       *)
(* ------------------------------------------------------------------------ *)

Truthy(o, k) == Has(o, k) /\ o[k] = TRUE

localResult == [success |-> TRUE, local |-> TRUE]

\* Variant: a failed read gives an empty list instead of the mirror.
fetchProjectsFromApi_NoFallback(st, resp) ==
  IF ~resp.threw /\ Has(resp.body, "projects")
  THEN [st |-> setProjects(st, resp.body.projects), list |-> resp.body.projects]
  ELSE [st |-> st, list |-> <<>>]

\* Variant: an empty result is taken for a missing one (a test of
\* result.projects.length), so the mirror is kept.
fetchProjectsFromApi_SkipEmpty(st, resp) ==
  IF ~resp.threw /\ Has(resp.body, "projects") /\ resp.body.projects # <<>>
  THEN [st |-> setProjects(st, resp.body.projects), list |-> resp.body.projects]
  ELSE [st |-> st, list |-> getProjects(st)]

fetchProjectsFromApi(st, resp) ==
  IF ~resp.threw /\ Has(resp.body, "projects")
  THEN [st |-> setProjects(st, resp.body.projects), list |-> resp.body.projects]
  ELSE [st |-> st, list |-> getProjects(st)]

fetchCategoriesFromApi(st, resp) ==
  IF ~resp.threw /\ Has(resp.body, "categories")
  THEN [st |-> setCategories(st, resp.body.categories), list |-> resp.body.categories]
  ELSE [st |-> st, list |-> getCategories(st)]

addProjectToApi(st, projectData, resp, t) ==
  IF resp.threw
  THEN [st |-> addProject(st, projectData, t), ret |-> localResult]
  ELSE IF Truthy(resp.body, "success")
       THEN [st |-> addProject(st,
                      IF Has(resp.body, "project") THEN resp.body.project
                      ELSE projectData, t),
             ret |-> resp.body]
       ELSE [st |-> st, ret |-> resp.body]

updateProjectToApi(st, id, updates, resp, t) ==
  IF resp.threw
  THEN [st |-> updateProject(st, id, updates, t), ret |-> localResult]
  ELSE IF Truthy(resp.body, "success")
       THEN [st |-> updateProject(st, id, updates, t), ret |-> resp.body]
       ELSE [st |-> st, ret |-> resp.body]

deleteProjectFromApi(st, id, resp) ==
  IF resp.threw
  THEN [st |-> deleteProject(st, id), ret |-> localResult]
  ELSE IF Truthy(resp.body, "success")
       THEN [st |-> deleteProject(st, id), ret |-> resp.body]
       ELSE [st |-> st, ret |-> resp.body]

\* categories.push(entity); setCategories(categories)
pushCategory(st, entity) == setCategories(st, Append(getCategories(st), entity))

addCategoryToApi(st, categoryData, resp) ==
  IF resp.threw
  THEN [st |-> pushCategory(st, categoryData), ret |-> localResult]
  ELSE IF Truthy(resp.body, "success")
       THEN [st |-> pushCategory(st,
                      IF Has(resp.body, "category") THEN resp.body.category
                      ELSE categoryData),
             ret |-> resp.body]
       ELSE [st |-> st, ret |-> resp.body]

\* categories[index] = { ...categories[index], ...updates } when found
mergeCategory(st, id, updates) ==
  LET categories == getCategories(st)
      index == findIndex(categories, id)
  IN IF index # 0
     THEN setCategories(st,
            [categories EXCEPT ![index] = Spread(categories[index], updates)])
     ELSE st

updateCategoryToApi(st, id, updates, resp) ==
  IF resp.threw
  THEN [st |-> mergeCategory(st, id, updates), ret |-> localResult]
  ELSE IF Truthy(resp.body, "success")
       THEN [st |-> mergeCategory(st, id, updates), ret |-> resp.body]
       ELSE [st |-> st, ret |-> resp.body]

\* categories.splice(index, 1) when found
spliceCategory(st, id) ==
  LET categories == getCategories(st)
      index == findIndex(categories, id)
  IN IF index # 0
     THEN setCategories(st,
            [i \in 1..(Len(categories) - 1) |->
               IF i < index THEN categories[i] ELSE categories[i + 1]])
     ELSE st

deleteCategoryFromApi(st, id, resp) ==
  IF resp.threw
  THEN [st |-> spliceCategory(st, id), ret |-> localResult]
  ELSE IF Truthy(resp.body, "success")
       THEN [st |-> spliceCategory(st, id), ret |-> resp.body]
       ELSE [st |-> st, ret |-> resp.body]

\* syncDataToD1 returns the body, or { success: false } when the request throws
syncDataToD1(resp) ==
  IF resp.threw THEN [success |-> FALSE, error |-> "failed"] ELSE resp.body

\* Variant: favorites filled from getTags.
exportAllData_TagsForFavorites(st, t) ==
  [projects |-> getProjects(st),
   categories |-> getCategories(st),
   tags |-> getTags(st),
   favorites |-> getTags(st),
   settings |-> getSettings(st),
   exportedAt |-> t]

\* exportAllData() at clock t
exportAllData(st, t) ==
  [projects |-> getProjects(st),
   categories |-> getCategories(st),
   tags |-> getTags(st),
   favorites |-> getFavorites(st),
   settings |-> getSettings(st),
   exportedAt |-> t]

\* The body of the request of syncDataToD1
syncPayload(st, t) ==
  [projects |-> exportAllData(st, t).projects,
   categories |-> exportAllData(st, t).categories]

\* importData(data)
importData(st, data) ==
  LET s1 == IF Has(data, "projects") THEN setProjects(st, data.projects) ELSE st
      s2 == IF Has(data, "categories") THEN setCategories(s1, data.categories) ELSE s1
      s3 == IF Has(data, "tags") THEN setTags(s2, data.tags) ELSE s2
      s4 == IF Has(data, "favorites") THEN set(s3, KEYS.FAVORITES, data.favorites) ELSE s3
  IN IF Has(data, "settings") THEN setSettings(s4, data.settings) ELSE s4

(* ------------------------------------------------------------------------ *)
(* Inputs                                                                     *)
(* ------------------------------------------------------------------------ *)

\* What the project form can hold when Save is clicked
ProjectForms ==
  {[name |-> <<"b">>, owner |-> <<"a">>, stars |-> 5, category |-> <<"t">>],
   [name |-> <<"B">>, owner |-> <<"A">>, stars |-> 7, category |-> <<>>],
   [name |-> <<>>, owner |-> <<"a">>, stars |-> 0, category |-> <<>>]}

\* What the category form can hold when Save is clicked (before trim and
\* toLowerCase)
CategoryForms ==
  {[name |-> <<"u">>, slug |-> <<"u">>, description |-> <<>>],
   [name |-> <<"T">>, slug |-> <<"T", " ">>, description |-> <<>>],
   [name |-> <<"c">>, slug |-> <<"c", " ", "c">>, description |-> <<>>],
   [name |-> <<" ">>, slug |-> <<"u">>, description |-> <<>>]}

\* src/js/data/projects.json, the seed of the local mirror
defaultData ==
  [projects |-> <<[id |-> <<"0">>, name |-> <<"c">>, owner |-> <<"a">>, stars |-> 7,
                   category |-> <<"t">>, created_at |-> 1, updated_at |-> 1]>>,
   categories |-> <<[id |-> <<"t">>, name |-> <<"t">>, slug |-> <<"t">>,
                     description |-> <<>>]>>,
   tags |-> <<>>]

\* Backup files the operator can import
BackupFiles ==
  <<[categories |-> <<[id |-> <<"T">>, name |-> <<"T">>, slug |-> <<"T">>,
                       description |-> <<>>]>>],
    [projects |-> <<[id |-> <<"0">>, name |-> <<"b">>, owner |-> <<"a">>, stars |-> 5,
                     category |-> <<"T">>, created_at |-> 1, updated_at |-> 1],
                    [id |-> <<"2">>, name |-> <<"u">>, owner |-> <<"u">>, stars |-> 3,
                     category |-> <<"t">>]>>,
     favorites |-> <<<<"0">>>>,
     settings |-> [theme |-> "light"]]>>

\* Ids a table row, and so an edit or delete click, can carry: those of the
\* two stores and one of a row that is gone from both
StaleId == <<"9">>

ProjectIds == IdsOf(getProjects(store)) \cup IdsOf(db.projects) \cup {StaleId}

CategoryIds == IdsOf(getCategories(store)) \cup IdsOf(db.categories) \cup {StaleId}

Slots == {1, 2}

GetFaults == {"none", "db", "net"}

WriteFaults == {"none", "unauth", "db", "net"}

(* ------------------------------------------------------------------------ *)
(* Flows: one record per handler in flight                                    *)
(* ------------------------------------------------------------------------ *)

NoProject == [name |-> <<>>, owner |-> <<>>, stars |-> 0, category |-> <<>>]

NoCategory == [name |-> <<>>, slug |-> <<>>, description |-> <<>>]

NoBody == [none |-> TRUE]

NoResp == [threw |-> FALSE, body |-> NoBody]

EmptyStore == [k \in {} |-> <<>>]

\* kind, pc: the handler and where it stands; call, phase: the coordinator
\* call it awaits (sent, replied, returned); resp, ret, list: the answer of the
\* request, the value and the collection the call returned.  History kept for
\* the properties: before, at (storage and clock when the call resumed),
\* dbBefore (tables when the request arrived), checked (the collection the
\* handler's check read), wret, wresp, wbefore, wat (ret, resp, before, at of
\* the handler's write), start (storage when the handler started), reqs and
\* nreq (requests the call and the handler have sent), file (the backup file
\* imported), failed (the ids whose statement failed in POST /api/sync), prev
\* (the sync of the handler that ran before in the slot).  The bulk importer
\* keeps urls (the identifiers typed), tofetch (those batchGetRepoInfo has still
\* to fetch), results, pending (the fetched repositories the loop has still to
\* visit), created (what it passed to addProjectToApi), and its counters.
\* No sync ran in the handler before.
NoPrev ==
  [synced |-> FALSE, ok |-> FALSE,
   payload |-> [projects |-> <<>>, categories |-> <<>>],
   db |-> [projects |-> <<>>, categories |-> <<>>]]

IdleFlow ==
  [kind |-> "idle", pc |-> "idle", call |-> "none", phase |-> "none",
   editId |-> <<>>, id |-> <<>>, pdata |-> NoProject, cdata |-> NoCategory,
   resp |-> NoResp, ret |-> NoBody, list |-> <<>>, before |-> EmptyStore,
   at |-> 0, toast |-> "none", todo |-> <<>>,
   payload |-> [projects |-> <<>>, categories |-> <<>>],
   wret |-> NoBody, wresp |-> NoResp, wbefore |-> EmptyStore, wat |-> 0,
   checked |-> <<>>, dbBefore |-> [projects |-> <<>>, categories |-> <<>>],
   start |-> EmptyStore, reqs |-> 0, nreq |-> 0, file |-> 0, failed |-> {},
   prev |-> NoPrev,
   urls |-> <<>>, tofetch |-> <<>>, results |-> <<>>, pending |-> <<>>,
   created |-> <<>>, successCount |-> 0, addedCount |-> 0, skippedCount |-> 0,
   failedCount |-> 0, fetching |-> FALSE, progress |-> <<>>]

\* The handler awaits a coordinator call: the request is sent.
Await(f, op, pc) ==
  [f EXCEPT !.call = op, !.phase = "sent", !.pc = pc, !.resp = NoResp,
            !.ret = NoBody, !.list = <<>>, !.before = EmptyStore,
            !.reqs = 1, !.nreq = @ + 1]

\* A handler of this kind starts.
Begin(kind) == [IdleFlow EXCEPT !.kind = kind, !.start = store]

\* The handler is over.
End(f, toast) ==
  [f EXCEPT !.pc = "done", !.toast = toast, !.call = "none", !.phase = "none"]

AllIdle == \A s \in Slots : flow[s].kind = "idle"

\* initAdminPage binds the handlers last.
Ready == page = "admin" /\ runs < MaxRuns

\* A handler starts in the first free slot; conc allows it to start while
\* another handler is awaiting.
CanStart(s, conc) ==
  /\ flow[s].kind = "idle"
  /\ \A o \in Slots : o < s => flow[o].kind # "idle"
  /\ conc \/ AllIdle
  /\ \A o \in Slots : flow[o].phase # "returned" /\ flow[o].pc # "done"

loadDashboardStats == <<"fetchProjects", "fetchCategories">>

loadRecentProjects == <<"fetchProjects">>

loadProjectsTable == <<"fetchProjects", "fetchCategories">>

loadCategoriesTable == <<"fetchCategories", "fetchProjects">>

loadCategoryOptions == <<"fetchCategories">>

(* ------------------------------------------------------------------------ *)
(* Initial state: the admin page opens on what earlier sessions left in      *)
(* localStorage and in the tables; no handler runs yet                       *)
(* ------------------------------------------------------------------------ *)

\* The category schema.sql seeds, and the one of the first backup file
seededCategory ==
  [id |-> <<"t">>, name |-> <<"t">>, slug |-> <<"t">>, description |-> <<>>]

importedCategory == BackupFiles[1].categories[1]

\* A project saved through the form at clock 1 of an earlier session
earlierProject ==
  [id |-> <<"1">>, name |-> <<"b">>, owner |-> <<"a">>, stars |-> 5,
   category |-> <<"t">>, created_at |-> 1, updated_at |-> 1]

\* localStorage: never used; seeded and refreshed from the tables after the
\* save of earlierProject; seeded, the first backup file imported and a
\* card's favourite toggled while the remote was down
LocalSnapshots ==
  <<EmptyStore,
    set(initStorage(EmptyStore,
                    [projects |-> <<earlierProject>>, categories |-> <<seededCategory>>,
                     tags |-> <<>>]),
        KEYS.FAVORITES, <<earlierProject.id>>),
    toggleFavorite(importData(initStorage(EmptyStore, defaultData), BackupFiles[1]),
                   defaultData.projects[1].id)>>

\* The tables: as schema.sql leaves them; after the save of earlierProject
RemoteSnapshots ==
  <<[projects |-> <<>>, categories |-> <<seededCategory>>],
    [projects |-> <<earlierProject>>, categories |-> <<seededCategory>>]>>

\* last: the last call of a function made from outside the admin page, with
\* its arguments, its result and the storage before it.
NoCall == [fn |-> "none"]

Init ==
  /\ \E i \in 1..Len(LocalSnapshots) : store = LocalSnapshots[i]
  /\ \E i \in 1..Len(RemoteSnapshots) : db = RemoteSnapshots[i]
  /\ now = 1
  /\ page = "login"
  /\ runs = 0
  /\ flow = [s \in Slots |-> IdleFlow]
  /\ last = NoCall

(* ------------------------------------------------------------------------ *)
(* The environment: the clock, the remote end of a request                   *)
(* ------------------------------------------------------------------------ *)

\* The clock is read only by the write handlers of the API and by the storage
\* writes made on their answer: time passing at any other moment is the same
\* as time passing while such a request is in flight.
Tick ==
  /\ now < MaxClock
  /\ \E s \in Slots : /\ flow[s].phase \in {"sent", "replied"}
                       /\ flow[s].call \notin {"fetchProjects", "fetchCategories"}
  /\ now' = now + 1
  /\ UNCHANGED <<store, db, page, runs, flow, last>>

\* The function the request of flow f reaches, run under fault
Handle(f, fault) ==
  CASE f.call = "fetchProjects" -> projectsGet(db, fault)
    [] f.call = "fetchCategories" -> categoriesGet(db, fault)
    [] f.call = "addProject" -> projectsPost(db, f.pdata, fault, now)
    [] f.call = "updateProject" ->
         projectsPut(db, Spread([id |-> f.id], f.pdata), fault, now)
    [] f.call = "deleteProject" -> projectsDelete(db, f.id, fault)
    [] f.call = "addCategory" -> categoriesPost(db, f.cdata, fault, now)
    [] OTHER -> categoriesNoHandler(db)

FaultsOf(call) ==
  IF call \in {"fetchProjects", "fetchCategories"} THEN GetFaults
  ELSE IF call \in {"updateCategory", "deleteCategory"} THEN {"none", "net"}
  ELSE WriteFaults

\* The request of slot s is answered: fetch rejects ("net"), or the handler
\* runs and its JSON body comes back.
RemoteReply(s, fault) ==
  /\ flow[s].phase = "sent"
  /\ flow[s].call # "sync"
  /\ fault \in FaultsOf(flow[s].call)
  /\ LET h == Handle(flow[s], fault)
     IN IF fault = "net"
        THEN /\ db' = db
             /\ flow' = [flow EXCEPT ![s].phase = "replied", ![s].dbBefore = db,
                                     ![s].resp = [threw |-> TRUE, body |-> NoBody]]
        ELSE /\ db' = h.db
             /\ flow' = [flow EXCEPT ![s].phase = "replied", ![s].dbBefore = db,
                                     ![s].resp = [threw |-> FALSE, body |-> h.body]]
  /\ UNCHANGED <<store, now, page, runs, last>>

\* The same for POST /api/sync, whose statements fail one by one
RemoteSync(s, fault, failing) ==
  /\ flow[s].phase = "sent"
  /\ flow[s].call = "sync"
  /\ fault \in WriteFaults
  /\ failing \subseteq
       IdsOf(flow[s].payload.projects) \cup IdsOf(flow[s].payload.categories)
  /\ fault # "none" => failing = {}
  /\ LET h == syncPost(db, flow[s].payload, fault, failing, now)
     IN IF fault = "net"
        THEN /\ db' = db
             /\ flow' = [flow EXCEPT ![s].phase = "replied", ![s].dbBefore = db,
                                     ![s].resp = [threw |-> TRUE, body |-> NoBody]]
        ELSE /\ db' = h.db
             /\ flow' = [flow EXCEPT ![s].phase = "replied", ![s].dbBefore = db,
                                     ![s].failed = failing,
                                     ![s].resp = [threw |-> FALSE, body |-> h.body]]
  /\ UNCHANGED <<store, now, page, runs, last>>

(* ------------------------------------------------------------------------ *)
(* The coordinator call of slot s resumes on its answer and returns          *)
(* ------------------------------------------------------------------------ *)

\* [st, ret, list] of the call of flow f on the storage st at clock t
Complete(f, st, t) ==
  LET one(r) == [st |-> r.st, ret |-> r.ret, list |-> <<>>]
      many(r) == [st |-> r.st, ret |-> NoBody, list |-> r.list]
  IN CASE f.call = "fetchProjects" -> many(fetchProjectsFromApi(st, f.resp))
       [] f.call = "fetchCategories" -> many(fetchCategoriesFromApi(st, f.resp))
       [] f.call = "addProject" -> one(addProjectToApi(st, f.pdata, f.resp, t))
       [] f.call = "updateProject" ->
            one(updateProjectToApi(st, f.id, f.pdata, f.resp, t))
       [] f.call = "deleteProject" -> one(deleteProjectFromApi(st, f.id, f.resp))
       [] f.call = "addCategory" -> one(addCategoryToApi(st, f.cdata, f.resp))
       [] f.call = "updateCategory" ->
            one(updateCategoryToApi(st, f.id, f.cdata, f.resp))
       [] f.call = "deleteCategory" -> one(deleteCategoryFromApi(st, f.id, f.resp))
       [] OTHER -> [st |-> st, ret |-> syncDataToD1(f.resp), list |-> <<>>]

\* Variant: a request that threw is sent once more.
CoordinatorReturn_Retry(s) ==
  /\ flow[s].phase = "replied"
  /\ \A o \in Slots : flow[o].phase # "returned"
  /\ LET r == Complete(flow[s], store, now)
     IN IF flow[s].resp.threw /\ flow[s].reqs < 2
        THEN /\ store' = store
             /\ flow' = [flow EXCEPT ![s].phase = "sent", ![s].resp = NoResp,
                                     ![s].reqs = @ + 1]
        ELSE /\ store' = r.st
             /\ flow' = [flow EXCEPT ![s].phase = "returned", ![s].ret = r.ret,
                                     ![s].list = r.list, ![s].before = store,
                                     ![s].at = now]
  /\ UNCHANGED <<db, now, page, runs, last>>

CoordinatorReturn(s) ==
  /\ flow[s].phase = "replied"
  /\ \A o \in Slots : flow[o].phase # "returned"
  /\ LET r == Complete(flow[s], store, now)
     IN /\ store' = r.st
        /\ flow' = [flow EXCEPT ![s].phase = "returned", ![s].ret = r.ret,
                                ![s].list = r.list, ![s].before = store,
                                ![s].at = now]
  /\ UNCHANGED <<db, now, page, runs, last>>

(* ------------------------------------------------------------------------ *)
(* Handlers of the admin page                                                 *)
(* ------------------------------------------------------------------------ *)

\* After the write: the success toast, then the tables are loaded again.
Written(f, loads) ==
  Await([f EXCEPT !.toast = "success", !.wret = f.ret, !.wresp = f.resp,
                  !.wbefore = f.before, !.wat = f.at, !.todo = Tail(loads)],
        Head(loads), "reload")

\* initAdminPage: initStorage, the four loads, then bindProjectEvents'
\* loadCategoryOptions
InitAdminPage(s, conc) ==
  /\ CanStart(s, conc)
  /\ page = "login"
  /\ store' = initStorage(store, defaultData)
  /\ LET loads == loadDashboardStats \o loadRecentProjects \o loadProjectsTable
                  \o loadCategoriesTable \o loadCategoryOptions
     IN flow' = [flow EXCEPT ![s] =
                   Await([Begin("initAdminPage") EXCEPT !.todo = Tail(loads)],
                         Head(loads), "reload")]
  /\ UNCHANGED <<db, now, page, runs, last>>

\* One load has returned: the next one, or the handler is over.
Reloaded(s) ==
  /\ flow[s].pc = "reload"
  /\ flow[s].phase = "returned"
  /\ flow' = [flow EXCEPT ![s] =
                IF flow[s].todo = <<>> THEN End(flow[s], flow[s].toast)
                ELSE Await([flow[s] EXCEPT !.todo = Tail(@)], Head(flow[s].todo), "reload")]
  /\ page' = IF flow[s].todo = <<>> /\ flow[s].kind = "initAdminPage" THEN "admin"
             ELSE page
  /\ UNCHANGED <<store, db, now, runs, last>>

\* The toast is gone, the slot is free.
Finish(s) ==
  /\ flow[s].pc = "done"
  /\ flow' = [flow EXCEPT ![s] =
                [IdleFlow EXCEPT !.prev =
                   IF flow[s].kind \in {"importFile", "syncToCloud"}
                   THEN [synced |-> TRUE,
                         ok |-> Truthy(flow[s].wret, "success") /\ flow[s].failed = {},
                         payload |-> flow[s].payload,
                         db |-> db]
                   ELSE NoPrev]]
  /\ runs' = IF flow[s].kind = "initAdminPage" THEN runs ELSE runs + 1
  /\ UNCHANGED <<store, db, now, page, last>>

\* Variant: owner and name compared as typed.
isDuplicateProject_CaseSensitive(existingProjects, projectData) ==
  \E i \in 1..Len(existingProjects) :
    /\ existingProjects[i].owner = projectData.owner
    /\ existingProjects[i].name = projectData.name

\* existingProjects.some(p => owner and name equal after toLowerCase)
isDuplicateProject(existingProjects, projectData) ==
  \E i \in 1..Len(existingProjects) :
    /\ toLowerCase(existingProjects[i].owner) = toLowerCase(projectData.owner)
    /\ toLowerCase(existingProjects[i].name) = toLowerCase(projectData.name)

\* Save of the project form: required fields, then the duplicate check's
\* read (new project) or the update (edit).
SaveProjectClick(s, conc, editId, form) ==
  /\ CanStart(s, conc)
  /\ Ready
  /\ LET f == [Begin("saveProject") EXCEPT !.editId = editId,
                               !.id = editId, !.pdata = form]
     IN flow' = [flow EXCEPT ![s] =
                   IF form.name = <<>> \/ form.owner = <<>> THEN End(f, "error")
                   ELSE IF editId = <<>> THEN Await(f, "fetchProjects", "check")
                   ELSE Await(f, "updateProject", "write")]
  /\ UNCHANGED <<store, db, now, page, runs, last>>

SaveProjectChecked(s) ==
  /\ flow[s].kind = "saveProject"
  /\ flow[s].pc = "check"
  /\ flow[s].phase = "returned"
  /\ flow' = [flow EXCEPT ![s] =
                LET f == [flow[s] EXCEPT !.checked = flow[s].list]
                IN IF isDuplicateProject(flow[s].list, flow[s].pdata)
                   THEN End(f, "error")
                   ELSE Await(f, "addProject", "write")]
  /\ UNCHANGED <<store, db, now, page, runs, last>>

SaveProjectWritten(s) ==
  /\ flow[s].kind = "saveProject"
  /\ flow[s].pc = "write"
  /\ flow[s].phase = "returned"
  /\ flow' = [flow EXCEPT ![s] =
                Written(flow[s], loadProjectsTable \o loadDashboardStats
                                 \o loadRecentProjects)]
  /\ UNCHANGED <<store, db, now, page, runs, last>>

\* handleProjectAction, action delete, the operator confirming
DeleteProjectClick(s, conc, id) ==
  /\ CanStart(s, conc)
  /\ Ready
  /\ flow' = [flow EXCEPT ![s] =
                Await([Begin("deleteProject") EXCEPT !.id = id],
                      "deleteProject", "write")]
  /\ UNCHANGED <<store, db, now, page, runs, last>>

DeleteProjectWritten(s) ==
  /\ flow[s].kind = "deleteProject"
  /\ flow[s].pc = "write"
  /\ flow[s].phase = "returned"
  /\ flow' = [flow EXCEPT ![s] =
                Written(flow[s], loadProjectsTable \o loadDashboardStats)]
  /\ UNCHANGED <<store, db, now, page, runs, last>>

\* existingCategories.some(c => c.slug === slug || c.id === slug)
isDuplicateCategory(existingCategories, slug) ==
  \E i \in 1..Len(existingCategories) :
    \/ existingCategories[i].slug = slug
    \/ existingCategories[i].id = slug

\* Save of the category form
SaveCategoryClick(s, conc, editId, form) ==
  /\ CanStart(s, conc)
  /\ Ready
  /\ LET categoryData == [name |-> trim(form.name),
                          slug |-> toLowerCase(trim(form.slug)),
                          description |-> trim(form.description)]
         f == [Begin("saveCategory") EXCEPT !.editId = editId,
                               !.id = editId, !.cdata = categoryData]
     IN flow' = [flow EXCEPT ![s] =
                   IF categoryData.name = <<>> \/ categoryData.slug = <<>>
                   THEN End(f, "error")
                   ELSE IF ~SlugFormatOk(categoryData.slug) THEN End(f, "error")
                   ELSE IF editId = <<>> THEN Await(f, "fetchCategories", "check")
                   ELSE Await(f, "updateCategory", "write")]
  /\ UNCHANGED <<store, db, now, page, runs, last>>

SaveCategoryChecked(s) ==
  /\ flow[s].kind = "saveCategory"
  /\ flow[s].pc = "check"
  /\ flow[s].phase = "returned"
  /\ flow' = [flow EXCEPT ![s] =
                LET f == [flow[s] EXCEPT !.checked = flow[s].list]
                IN IF isDuplicateCategory(flow[s].list, flow[s].cdata.slug)
                   THEN End(f, "error")
                   ELSE Await([f EXCEPT !.cdata = Spread(@, [id |-> flow[s].cdata.slug])],
                              "addCategory", "write")]
  /\ UNCHANGED <<store, db, now, page, runs, last>>

SaveCategoryWritten(s) ==
  /\ flow[s].kind = "saveCategory"
  /\ flow[s].pc = "write"
  /\ flow[s].phase = "returned"
  /\ flow' = [flow EXCEPT ![s] =
                Written(flow[s], loadCategoriesTable \o loadCategoryOptions
                                 \o loadDashboardStats)]
  /\ UNCHANGED <<store, db, now, page, runs, last>>

\* handleCategoryAction, action deleteCategory: the reference check's read
DeleteCategoryClick(s, conc, id) ==
  /\ CanStart(s, conc)
  /\ Ready
  /\ flow' = [flow EXCEPT ![s] =
                Await([Begin("deleteCategory") EXCEPT !.id = id],
                      "fetchProjects", "check")]
  /\ UNCHANGED <<store, db, now, page, runs, last>>

DeleteCategoryChecked(s) ==
  /\ flow[s].kind = "deleteCategory"
  /\ flow[s].pc = "check"
  /\ flow[s].phase = "returned"
  /\ flow' = [flow EXCEPT ![s] =
                LET f == [flow[s] EXCEPT !.checked = flow[s].list]
                IN IF \E i \in 1..Len(f.list) : f.list[i].category = f.id
                   THEN End(f, "error")
                   ELSE [f EXCEPT !.pc = "confirm", !.phase = "none", !.call = "none"]]
  /\ UNCHANGED <<store, db, now, page, runs, last>>

\* showConfirm resolves
DeleteCategoryConfirm(s, confirmed) ==
  /\ flow[s].kind = "deleteCategory"
  /\ flow[s].pc = "confirm"
  /\ flow' = [flow EXCEPT ![s] =
                IF confirmed THEN Await(flow[s], "deleteCategory", "write")
                ELSE End(flow[s], "none")]
  /\ UNCHANGED <<store, db, now, page, runs, last>>

DeleteCategoryWritten(s) ==
  /\ flow[s].kind = "deleteCategory"
  /\ flow[s].pc = "write"
  /\ flow[s].phase = "returned"
  /\ flow' = [flow EXCEPT ![s] =
                Written(flow[s], loadCategoriesTable \o loadCategoryOptions
                                 \o loadDashboardStats)]
  /\ UNCHANGED <<store, db, now, page, runs, last>>

\* The file chosen in the import dialog: a backup file, or (the last choice)
\* the file the export button has just downloaded
ImportChoices == 1..(Len(BackupFiles) + 1)

ChosenFile(i) ==
  IF i <= Len(BackupFiles) THEN BackupFiles[i] ELSE exportAllData(store, now)

\* Import of a backup file, confirmed: importData, then syncDataToD1
ImportFileClick(s, conc, i) ==
  /\ CanStart(s, conc)
  /\ Ready
  /\ store' = importData(store, ChosenFile(i))
  /\ flow' = [flow EXCEPT ![s] =
                Await([Begin("importFile") EXCEPT
                         !.file = i, !.payload = syncPayload(store', now)],
                      "sync", "write")]
  /\ UNCHANGED <<db, now, page, runs, last>>

ImportFileSynced(s) ==
  /\ flow[s].kind = "importFile"
  /\ flow[s].pc = "write"
  /\ flow[s].phase = "returned"
  /\ LET loads == loadProjectsTable \o loadCategoriesTable \o loadDashboardStats
     IN flow' = [flow EXCEPT ![s] =
                   [Written(flow[s], loads) EXCEPT
                      !.toast = IF Truthy(flow[s].ret, "success") THEN "success"
                                ELSE "warning"]]
  /\ UNCHANGED <<store, db, now, page, runs, last>>

\* The sync button: syncDataToD1, then the toast
SyncClick(s, conc) ==
  /\ CanStart(s, conc)
  /\ page = "admin"
  /\ \/ runs < MaxRuns
     \/ runs < MaxRuns + MaxResyncs /\ flow[s].prev.synced
  /\ flow' = [flow EXCEPT ![s] =
                Await([Begin("syncToCloud") EXCEPT
                         !.payload = syncPayload(store, now),
                         !.prev = flow[s].prev],
                      "sync", "write")]
  /\ UNCHANGED <<store, db, now, page, runs, last>>

SyncReturned(s) ==
  /\ flow[s].kind = "syncToCloud"
  /\ flow[s].pc = "write"
  /\ flow[s].phase = "returned"
  /\ flow' = [flow EXCEPT ![s] =
                End([flow[s] EXCEPT !.wret = flow[s].ret, !.wresp = flow[s].resp,
                                    !.wbefore = flow[s].before, !.wat = flow[s].at],
                    IF Truthy(flow[s].ret, "success") THEN "success" ELSE "error")]
  /\ UNCHANGED <<store, db, now, page, runs, last>>

(* ------------------------------------------------------------------------ *)
(* The bulk importer                                                          *)
(* ------------------------------------------------------------------------ *)

\* parseGitHubUrl: .git, the protocol, www. and github.com/ are dropped, the
\* rest is split at "/"; fewer than two pieces is null (ok FALSE)
parseGitHubUrl(url) ==
  LET noGit == dropSuffix(trim(url), <<".", "g", "i", "t">>)
      noProtocol ==
        IF startsWith(noGit, <<"h", "t", "t", "p", "s", ":", "/", "/">>)
        THEN dropPrefix(noGit, <<"h", "t", "t", "p", "s", ":", "/", "/">>)
        ELSE dropPrefix(noGit, <<"h", "t", "t", "p", ":", "/", "/">>)
      noWww == dropPrefix(noProtocol, <<"w", "w", "w", ".">>)
      cleanUrl == dropPrefix(noWww, <<"g", "i", "t", "h", "u", "b", ".", "c", "o", "m", "/">>)
      parts == splitFilter(cleanUrl, "/", <<>>)
  IN IF Len(parts) >= 2 THEN [ok |-> TRUE, owner |-> parts[1], repo |-> parts[2]]
     ELSE [ok |-> FALSE, owner |-> <<>>, repo |-> <<>>]

\* The repositories api.github.com knows, as getRepoInfo returns them (names
\* in the case their owners gave them)
GitHubRepos ==
  <<[name |-> <<"B">>, owner |-> <<"A">>, stars |-> 7, topics |-> <<>>,
     created_at |-> 1, updated_at |-> 1],
    [name |-> <<"u">>, owner |-> <<"u">>, stars |-> 3, topics |-> <<<<"t">>>>,
     created_at |-> 1, updated_at |-> 1]>>

NoRepo ==
  [name |-> <<>>, owner |-> <<>>, stars |-> 0, topics |-> <<>>,
   created_at |-> 1, updated_at |-> 1]

\* getRepoInfo: the rate limit, the network or a status other than 200 make it
\* throw (up FALSE), and so does a repository GitHub does not know (404);
\* GitHub finds a repository whatever the case it is asked in.
getRepoInfo(owner, repo, up) ==
  LET found == {i \in 1..Len(GitHubRepos) :
                  /\ toLowerCase(GitHubRepos[i].owner) = toLowerCase(owner)
                  /\ toLowerCase(GitHubRepos[i].name) = toLowerCase(repo)}
  IN IF up /\ found # {}
     THEN [threw |-> FALSE, info |-> GitHubRepos[CHOOSE i \in found : TRUE]]
     ELSE [threw |-> TRUE, info |-> NoRepo]

getRepoInfoFromUrl(url, up) ==
  LET parsed == parseGitHubUrl(url)
  IN IF ~parsed.ok THEN [threw |-> TRUE, info |-> NoRepo]
     ELSE getRepoInfo(parsed.owner, parsed.repo, up)

\* One turn of batchGetRepoInfo's loop: the result pushed for url
batchResult(url, up) ==
  LET r == getRepoInfoFromUrl(url, up)
  IN [success |-> ~r.threw, url |-> url, data |-> r.info]

\* What the textarea can hold when the import starts, line by line
ImportTexts ==
  {<<<<" ">>>>,
   <<<<"a", "/", "b">>, <<"u">>, <<" ", "U", "/", "u">>>>,
   <<<<"g", "i", "t", "h", "u", "b", ".", "c", "o", "m", "/", "u", "/", "u">>,
     <<>>, <<"u", "/", "u">>>>}

\* Variant: owner and name compared as GitHub spells them.
isExistingProject_CaseSensitive(existingProjects, data) ==
  \E i \in 1..Len(existingProjects) :
    /\ existingProjects[i].owner = data.owner
    /\ existingProjects[i].name = data.name

\* existingProjects.some(p => owner and name equal after toLowerCase)
isExistingProject(existingProjects, data) ==
  \E i \in 1..Len(existingProjects) :
    /\ toLowerCase(existingProjects[i].owner) = toLowerCase(data.owner)
    /\ toLowerCase(existingProjects[i].name) = toLowerCase(data.name)

\* The import button: the lines trimmed, the empty ones dropped; none left is
\* an error, else the existing projects are read.
BulkImportClick(s, conc, text) ==
  /\ CanStart(s, conc)
  /\ Ready
  /\ LET urls == SelectSeq([i \in 1..Len(text) |-> trim(text[i])],
                           LAMBDA u : u # <<>>)
         f == [Begin("bulkImport") EXCEPT !.urls = urls, !.tofetch = urls]
     IN flow' = [flow EXCEPT ![s] =
                   IF Len(urls) = 0 THEN End(f, "error")
                   ELSE Await(f, "fetchProjects", "existing")]
  /\ UNCHANGED <<store, db, now, page, runs, last>>

\* existingProjects is read: batchGetRepoInfo starts.
BulkImportExisting(s) ==
  /\ flow[s].kind = "bulkImport"
  /\ flow[s].pc = "existing"
  /\ flow[s].phase = "returned"
  /\ flow' = [flow EXCEPT ![s] =
                [flow[s] EXCEPT !.checked = flow[s].list, !.pc = "batch",
                                !.phase = "none", !.call = "none"]]
  /\ UNCHANGED <<store, db, now, page, runs, last>>

\* Variant: the callback is given the index of the loop.
onProgressCall_ZeroBased(i, urls, result) ==
  [current |-> i, total |-> Len(urls), result |-> result]

\* onProgress(i + 1, urls.length, result), as the importer's callback sees it
onProgressCall(i, urls, result) ==
  [current |-> i + 1, total |-> Len(urls), result |-> result]

\* batchGetRepoInfo asks GitHub for the next url and awaits the answer.
RepoFetchStart(s) ==
  /\ flow[s].kind = "bulkImport"
  /\ flow[s].pc = "batch"
  /\ flow[s].tofetch # <<>>
  /\ ~flow[s].fetching
  /\ flow' = [flow EXCEPT ![s].fetching = TRUE]
  /\ UNCHANGED <<store, db, now, page, runs, last>>

\* The answer (or the throw) of getRepoInfoFromUrl: the result is pushed and
\* the progress callback is called with it.
RepoFetched(s, up) ==
  /\ flow[s].kind = "bulkImport"
  /\ flow[s].pc = "batch"
  /\ flow[s].tofetch # <<>>
  /\ flow[s].fetching
  /\ LET result == batchResult(Head(flow[s].tofetch), up)
     IN flow' = [flow EXCEPT ![s].results = Append(@, result),
                             ![s].progress =
                               Append(@, onProgressCall(Len(flow[s].results),
                                                        flow[s].urls, result)),
                             ![s].tofetch = Tail(@),
                             ![s].fetching = FALSE]
  /\ UNCHANGED <<store, db, now, page, runs, last>>

\* The loop over the fetched repositories, up to its next await: duplicates
\* are skipped, the first other one goes to addProjectToApi; at the end of the
\* list the tables are loaded again and the toast is chosen.
RECURSIVE ImportLoop(_)
ImportLoop(f) ==
  IF f.pending = <<>>
  THEN LET loads == loadProjectsTable \o loadDashboardStats
           failedCount == Len(f.results) - f.successCount
       IN Await([f EXCEPT !.failedCount = failedCount,
                          !.todo = Tail(loads),
                          !.toast = IF f.addedCount > 0 THEN "success"
                                    ELSE IF f.skippedCount > 0 THEN "info"
                                    ELSE "error"],
                Head(loads), "reload")
  ELSE LET r == Head(f.pending)
       IN IF isExistingProject(f.checked, r.data)
          THEN ImportLoop([f EXCEPT !.skippedCount = @ + 1, !.pending = Tail(@)])
          ELSE LET projectData ==
                     Spread(r.data, [github_url |-> r.url, tags |-> r.data.topics])
               IN Await([f EXCEPT !.pending = Tail(@), !.pdata = projectData,
                                  !.created = Append(@, projectData)],
                        "addProject", "import")

\* batchGetRepoInfo returns { results, successCount }.
BatchReturned(s) ==
  /\ flow[s].kind = "bulkImport"
  /\ flow[s].pc = "batch"
  /\ flow[s].tofetch = <<>>
  /\ LET results == flow[s].results
         errors == SelectSeq(results, LAMBDA r : ~r.success)
     IN flow' = [flow EXCEPT ![s] =
                   ImportLoop([flow[s] EXCEPT
                                 !.successCount = Len(results) - Len(errors),
                                 !.pending = SelectSeq(results, LAMBDA r : r.success)])]
  /\ UNCHANGED <<store, db, now, page, runs, last>>

\* addProjectToApi has returned: addedCount++, whatever it returned.
BulkImportAdded(s) ==
  /\ flow[s].kind = "bulkImport"
  /\ flow[s].pc = "import"
  /\ flow[s].phase = "returned"
  /\ flow' = [flow EXCEPT ![s] =
                ImportLoop([flow[s] EXCEPT !.addedCount = @ + 1,
                                           !.wret = flow[s].ret,
                                           !.wresp = flow[s].resp,
                                           !.wbefore = flow[s].before,
                                           !.wat = flow[s].at])]
  /\ UNCHANGED <<store, db, now, page, runs, last>>

(* ------------------------------------------------------------------------ *)
(* Specification: one handler at a time (the single logical thread of        *)
(* control); requests are answered and calls return one by one               *)
(* ------------------------------------------------------------------------ *)

Next ==
  \/ Tick
  \/ \E s \in Slots :
       \/ InitAdminPage(s, FALSE)
       \/ \E editId \in {<<>>} \cup ProjectIds, form \in ProjectForms :
            SaveProjectClick(s, FALSE, editId, form)
       \/ SaveProjectChecked(s)
       \/ SaveProjectWritten(s)
       \/ \E id \in ProjectIds : DeleteProjectClick(s, FALSE, id)
       \/ DeleteProjectWritten(s)
       \/ \E editId \in {<<>>} \cup CategoryIds, form \in CategoryForms :
            SaveCategoryClick(s, FALSE, editId, form)
       \/ SaveCategoryChecked(s)
       \/ SaveCategoryWritten(s)
       \/ \E id \in CategoryIds : DeleteCategoryClick(s, FALSE, id)
       \/ DeleteCategoryChecked(s)
       \/ \E confirmed \in BOOLEAN : DeleteCategoryConfirm(s, confirmed)
       \/ DeleteCategoryWritten(s)
       \/ \E i \in ImportChoices : ImportFileClick(s, FALSE, i)
       \/ ImportFileSynced(s)
       \/ SyncClick(s, FALSE)
       \/ SyncReturned(s)
       \/ \E fault \in WriteFaults : RemoteReply(s, fault)
       \/ \E fault \in WriteFaults,
               failing \in SUBSET (IdsOf(flow[s].payload.projects)
                                   \cup IdsOf(flow[s].payload.categories)) :
            RemoteSync(s, fault, failing)
       \/ CoordinatorReturn(s)
       \/ Reloaded(s)
       \/ Finish(s)

Spec == Init /\ [][Next]_vars

\* The admin page with its bulk importer
NextImport ==
  \/ Tick
  \/ \E s \in Slots :
       \/ InitAdminPage(s, FALSE)
       \/ \E text \in ImportTexts : BulkImportClick(s, FALSE, text)
       \/ BulkImportExisting(s)
       \/ RepoFetchStart(s)
       \/ \E up \in BOOLEAN : RepoFetched(s, up)
       \/ BatchReturned(s)
       \/ BulkImportAdded(s)
       \/ \E fault \in WriteFaults : RemoteReply(s, fault)
       \/ CoordinatorReturn(s)
       \/ Reloaded(s)
       \/ Finish(s)

SpecImport == Init /\ [][NextImport]_vars

\* Two handlers in flight at once.  While the confirmation dialog of a category
\* delete is open, the operator saves a new project (in a second tab, which
\* shares localStorage and the tables); the dialog is answered when that
\* handler is over.
NextRace ==
  \/ Tick
  \/ InitAdminPage(1, FALSE)
  \/ \E id \in CategoryIds : DeleteCategoryClick(1, FALSE, id)
  \/ DeleteCategoryChecked(1)
  \/ /\ flow[1].pc = "confirm"
     /\ \E form \in ProjectForms : SaveProjectClick(2, TRUE, <<>>, form)
  \/ SaveProjectChecked(2)
  \/ SaveProjectWritten(2)
  \/ /\ flow[2].kind = "idle"
     /\ \E confirmed \in BOOLEAN : DeleteCategoryConfirm(1, confirmed)
  \/ DeleteCategoryWritten(1)
  \/ \E s \in Slots :
       \/ \E fault \in WriteFaults : RemoteReply(s, fault)
       \/ CoordinatorReturn(s)
       \/ Reloaded(s)
       \/ Finish(s)

SpecRace == Init /\ [][NextRace]_vars

(* ------------------------------------------------------------------------ *)
(* storage.js called on its own: the front page and the cards use it without *)
(* the coordinator                                                            *)
(* ------------------------------------------------------------------------ *)

\* A marker left by an earlier version of the page
EARLIER_VERSION == <<"0", ".", "9", ".", "0">>

\* localStorage as the page can find it: never used; left by the admin page
\* (LocalSnapshots); left by an earlier version, with settings of its own;
\* with a settings text, or a marker text, that does not parse
StorageSnapshots ==
  <<EmptyStore,
    LocalSnapshots[2],
    LocalSnapshots[3],
    set(set(LocalSnapshots[3], KEYS.DATA_VERSION, EARLIER_VERSION),
        KEYS.SETTINGS, [theme |-> "light", lang |-> "en"]),
    Spread(LocalSnapshots[2],
           [awesome_repos_settings |-> [theme |-> "{"],
            unparsable |-> {KEYS.SETTINGS}]),
    Spread(LocalSnapshots[2],
           [awesome_repos_data_version |-> <<"1">>,
            unparsable |-> {KEYS.DATA_VERSION}])>>

\* What setSettings is given: the theme toggle's object, and others
SettingsInputs ==
  {[theme |-> "light"], [theme |-> "dark"],
   [sortBy |-> "name", sortOrder |-> "asc"], [lang |-> "zh"]}

\* The reads of storage.js: key and default value
StorageReads ==
  <<<<KEYS.SETTINGS, defaultSettings>>, <<KEYS.DATA_VERSION, <<>>>>,
    <<KEYS.FAVORITES, <<>>>>, <<KEYS.PROJECTS, <<>>>>>>

InitStorageOnly ==
  /\ \E i \in 1..Len(StorageSnapshots) : store = StorageSnapshots[i]
  /\ db = RemoteSnapshots[1]
  /\ now = 1
  /\ page = "front"
  /\ runs = 0
  /\ flow = [s \in Slots |-> IdleFlow]
  /\ last = NoCall

\* initApp: initStorage(defaultData)
InitStorageCall ==
  /\ store' = initStorage(store, defaultData)
  /\ last' = [fn |-> "initStorage", before |-> store]
  /\ UNCHANGED <<db, now, page, runs, flow>>

SetSettingsCall(settings) ==
  /\ store' = setSettings(store, settings)
  /\ last' = [fn |-> "setSettings", before |-> store, settings |-> settings]
  /\ UNCHANGED <<db, now, page, runs, flow>>

GetCall(key, defaultValue) ==
  /\ last' = [fn |-> "get", before |-> store, key |-> key,
              defaultValue |-> defaultValue,
              result |-> get(store, key, defaultValue)]
  /\ UNCHANGED <<store, db, now, page, runs, flow>>

\* The favourite button of a card
ToggleFavoriteCall(projectId) ==
  /\ store' = toggleFavorite(store, projectId)
  /\ last' = [fn |-> "toggleFavorite", before |-> store, id |-> projectId]
  /\ UNCHANGED <<db, now, page, runs, flow>>

DeleteProjectCall(id) ==
  /\ store' = deleteProject(store, id)
  /\ last' = [fn |-> "deleteProject", before |-> store, id |-> id]
  /\ UNCHANGED <<db, now, page, runs, flow>>

NextStorage ==
  \/ InitStorageCall
  \/ \E settings \in SettingsInputs : SetSettingsCall(settings)
  \/ \E i \in 1..Len(StorageReads) : GetCall(StorageReads[i][1], StorageReads[i][2])
  \/ \E projectId \in IdsOf(getProjects(store)) : ToggleFavoriteCall(projectId)
  \/ \E id \in IdsOf(getProjects(store)) \cup {StaleId} : DeleteProjectCall(id)

SpecStorage == InitStorageOnly /\ [][NextStorage]_vars

\* Two saves of new projects in flight at once.  The save button is enabled
\* until the duplicate check of a save has returned: while the first save
\* awaits its check, the operator clicks again (the same form or another
\* one); the answer to the first check, read from the table when the request
\* arrived, is delivered when the second handler is over.  A request is
\* answered by its handler or fails on the network.
NextOverlap ==
  \/ Tick
  \/ InitAdminPage(1, FALSE)
  \/ \E form \in ProjectForms : SaveProjectClick(1, FALSE, <<>>, form)
  \/ /\ flow[1].kind = "saveProject"
     /\ flow[1].pc = "check"
     /\ \E form \in ProjectForms : SaveProjectClick(2, TRUE, <<>>, form)
  \/ \E s \in Slots : SaveProjectChecked(s)
  \/ \E s \in Slots : SaveProjectWritten(s)
  \/ \E s \in Slots, fault \in {"none", "net"} : RemoteReply(s, fault)
  \/ /\ flow[2].kind = "idle" \/ flow[2].pc = "done"
     /\ CoordinatorReturn(1)
  \/ CoordinatorReturn(2)
  \/ \E s \in Slots : Reloaded(s)
  \/ \E s \in Slots : Finish(s)

SpecOverlap == Init /\ [][NextOverlap]_vars

(* ------------------------------------------------------------------------ *)
(* The query engine of the front page: searchProjects and applyFilters, pure *)
(* functions called on collections, queries and filters of every kind        *)
(* ------------------------------------------------------------------------ *)

\* String.prototype.includes
includes(s, q) ==
  \E i \in 0..(Len(s) - Len(q)) : SubSeq(s, i + 1, i + Len(q)) = q

\* The test of searchProjects' filter callback
matchesQuery(project, lowerQuery) ==
  \/ includes(toLowerCase(project.name), lowerQuery)
  \/ includes(toLowerCase(project.owner), lowerQuery)
  \/ /\ TextOr(project, "description", <<>>) # <<>>
     /\ includes(toLowerCase(project.description), lowerQuery)
  \/ /\ TextOr(project, "language", <<>>) # <<>>
     /\ includes(toLowerCase(project.language), lowerQuery)
  \/ /\ Has(project, "tags")
     /\ \E t \in 1..Len(project.tags) :
          includes(toLowerCase(project.tags[t]), lowerQuery)

\* Variant: the fields are searched as they are written.
searchProjects_CaseSensitive(projects, query) ==
  [result |-> SelectSeq(projects,
                 LAMBDA p : \/ includes(p.name, toLowerCase(query))
                            \/ includes(p.owner, toLowerCase(query))),
   projects |-> projects]

\* searchProjects: result is what it returns, projects the array it was given
\* as the call leaves it.
searchProjects(projects, query) ==
  IF query = <<>> THEN [result |-> projects, projects |-> projects]
  ELSE [result |-> SelectSeq(projects,
                     LAMBDA p : matchesQuery(p, toLowerCase(query))),
        projects |-> projects]

ALL == <<"a", "l", "l">>

STARS == <<"s", "t", "a", "r", "s">>

NAME == <<"n", "a", "m", "e">>

UPDATED == <<"u", "p", "d", "a", "t", "e", "d">>

ASC == <<"a", "s", "c">>

\* new Date(day).getTime(): the clock reading at which the day starts
getTime(day) == (day - 1) * TicksPerDay

\* String.prototype.localeCompare of two lower-case texts
localeCompare(a, b) == IF a = b THEN 0 ELSE IF TextLeq(a, b) THEN 0 - 1 ELSE 1

\* Variant: the stars are compared as the texts the table shows.
compare_StarsAsText(a, b, field, order) ==
  IF field = STARS
  THEN IF order = ASC THEN localeCompare(toStringNat(a.stars), toStringNat(b.stars))
       ELSE localeCompare(toStringNat(b.stars), toStringNat(a.stars))
  ELSE IF field = NAME
  THEN IF order = ASC THEN localeCompare(toLowerCase(a.name), toLowerCase(b.name))
       ELSE localeCompare(toLowerCase(b.name), toLowerCase(a.name))
  ELSE IF field = UPDATED
  THEN IF order = ASC THEN getTime(a.updated_at) - getTime(b.updated_at)
       ELSE getTime(b.updated_at) - getTime(a.updated_at)
  ELSE 0

\* The comparator applyFilters gives to sort
compare(a, b, field, order) ==
  IF field = STARS
  THEN IF order = ASC THEN a.stars - b.stars ELSE b.stars - a.stars
  ELSE IF field = NAME
  THEN IF order = ASC THEN localeCompare(toLowerCase(a.name), toLowerCase(b.name))
       ELSE localeCompare(toLowerCase(b.name), toLowerCase(a.name))
  ELSE IF field = UPDATED
  THEN IF order = ASC THEN getTime(a.updated_at) - getTime(b.updated_at)
       ELSE getTime(b.updated_at) - getTime(a.updated_at)
  ELSE 0

\* Array.prototype.sort (stable): x goes behind the entries that are not to
\* come after it.
RECURSIVE insertSorted(_, _, _, _)
insertSorted(sorted, x, field, order) ==
  IF sorted = <<>> THEN <<x>>
  ELSE IF compare(sorted[Len(sorted)], x, field, order) <= 0 THEN Append(sorted, x)
  ELSE Append(insertSorted(SubSeq(sorted, 1, Len(sorted) - 1), x, field, order),
              sorted[Len(sorted)])

RECURSIVE sort(_, _, _)
sort(array, field, order) ==
  IF array = <<>> THEN <<>>
  ELSE insertSorted(sort(SubSeq(array, 1, Len(array) - 1), field, order),
                    array[Len(array)], field, order)

\* The array after the three filters of applyFilters
filtered(projects, filters, favorites) ==
  LET byLanguage ==
        IF filters.language # <<>> /\ filters.language # ALL
        THEN SelectSeq(projects,
               LAMBDA p : Has(p, "language") /\ p.language = filters.language)
        ELSE projects
      byCategory ==
        IF filters.category # <<>> /\ filters.category # ALL
        THEN SelectSeq(byLanguage,
               LAMBDA p : Has(p, "category") /\ p.category = filters.category)
        ELSE byLanguage
  IN IF filters.showFavorites
     THEN SelectSeq(byCategory, LAMBDA p : p.id \in Range(favorites))
     ELSE byCategory

\* Variant: no copy is made, the array given is the one sorted.
applyFilters_InPlace(projects, filters, favorites) ==
  LET result == filtered(projects, filters, favorites)
      parts == split(filters.sort, "-", <<>>)
      sorted == IF filters.sort # <<>>
                THEN sort(result, parts[1], IF Len(parts) > 1 THEN parts[2] ELSE <<>>)
                ELSE result
  IN [result |-> sorted,
      projects |-> IF Len(result) = Len(projects) THEN sorted ELSE projects]

\* applyFilters: result is what it returns, projects the array it was given as
\* the call leaves it (the filters and the sort work on a copy).
applyFilters(projects, filters, favorites) ==
  LET result == filtered(projects, filters, favorites)
      parts == split(filters.sort, "-", <<>>)
  IN [result |-> IF filters.sort # <<>>
                 THEN sort(result, parts[1], IF Len(parts) > 1 THEN parts[2] ELSE <<>>)
                 ELSE result,
      projects |-> projects]

\* The values of the sort menu
SORT_OPTIONS ==
  <<<<"s", "t", "a", "r", "s", "-", "d", "e", "s", "c">>,
    <<"s", "t", "a", "r", "s", "-", "a", "s", "c">>,
    <<"n", "a", "m", "e", "-", "a", "s", "c">>,
    <<"n", "a", "m", "e", "-", "d", "e", "s", "c">>,
    <<"u", "p", "d", "a", "t", "e", "d", "-", "d", "e", "s", "c">>,
    <<"u", "p", "d", "a", "t", "e", "d", "-", "a", "s", "c">>>>

\* Collections the front page can hold: projects with every field, among them
\* stars of 10, 500 and 10000, names that differ by their case only, equal
\* stars; projects as the admin form leaves them; no project
QueryProjects ==
  <<[id |-> <<"1">>, name |-> <<"a", "b">>, owner |-> <<"T">>,
     description |-> <<"a", " ", "b">>, language |-> <<"c">>, tags |-> <<<<"u">>>>,
     stars |-> 10, category |-> <<"t">>, created_at |-> 1, updated_at |-> 3],
    [id |-> <<"2">>, name |-> <<"B">>, owner |-> <<"u">>,
     description |-> <<>>, language |-> <<>>, tags |-> <<>>,
     stars |-> 500, category |-> <<"t">>, created_at |-> 1, updated_at |-> 1],
    [id |-> <<"3">>, name |-> <<"c">>, owner |-> <<"a">>,
     description |-> <<"C">>, language |-> <<"c">>, tags |-> <<<<"t">>, <<"A", "b">>>>,
     stars |-> 10000, category |-> <<"u">>, created_at |-> 1, updated_at |-> 2],
    [id |-> <<"4">>, name |-> <<"b">>, owner |-> <<"c">>,
     description |-> <<>>, language |-> <<"t">>, tags |-> <<>>,
     stars |-> 500, category |-> <<"u">>, created_at |-> 1, updated_at |-> 2]>>

QueryCollections ==
  <<<<QueryProjects[1], QueryProjects[2], QueryProjects[3]>>,
    <<QueryProjects[3], QueryProjects[4], QueryProjects[2], QueryProjects[1]>>,
    <<QueryProjects[4], QueryProjects[2]>>,
    <<earlierProject, defaultData.projects[1]>>,
    <<>>>>

\* What the caller can pass as the query: nothing, blanks, letters in either
\* case, more than one character
Queries ==
  {<<>>, <<" ">>, <<" ", " ">>, <<"b">>, <<"B">>, <<"a", "b">>, <<"C">>, <<"u", "u">>}

Languages == {ALL, <<"c">>, <<"t">>}

Categories == {ALL, <<"t">>, <<"u">>}

FavoriteLists == <<<<>>, <<<<"1">>, <<"9">>>>, <<<<"4">>, <<"2">>, <<"1">>>>>>

\* The page before any call of the query engine; runs counts the calls made.
InitQuery ==
  /\ store = EmptyStore
  /\ db = RemoteSnapshots[1]
  /\ now = 1
  /\ page = "front"
  /\ runs = 0
  /\ flow = [s \in Slots |-> IdleFlow]
  /\ last = NoCall

SearchProjectsCall(projects, query) ==
  /\ runs < MaxRuns
  /\ runs' = runs + 1
  /\ LET r == searchProjects(projects, query)
     IN last' = [fn |-> "searchProjects", projects |-> projects, query |-> query,
                 result |-> r.result, after |-> r.projects]
  /\ UNCHANGED <<store, db, now, page, flow>>

ApplyFiltersCall(projects, filters, favorites) ==
  /\ runs < MaxRuns
  /\ runs' = runs + 1
  /\ LET r == applyFilters(projects, filters, favorites)
     IN last' = [fn |-> "applyFilters", projects |-> projects, filters |-> filters,
                 favorites |-> favorites, result |-> r.result, after |-> r.projects]
  /\ UNCHANGED <<store, db, now, page, flow>>

\* The filters of the page before the visitor touches the panel
DefaultFilters ==
  [language |-> ALL, category |-> ALL, sort |-> SORT_OPTIONS[1],
   showFavorites |-> FALSE]

\* The visitor types text in the search box: the input handler trims it, the
\* page keeps it as its query and refreshes the list.
SearchInput(projects, text) ==
  /\ runs < MaxRuns
  /\ runs' = runs + 1
  /\ LET query == trim(text)
         found == searchProjects(projects, query)
         shown == applyFilters(found.result, DefaultFilters, getFavorites(store))
     IN last' = [fn |-> "onSearch", projects |-> projects, text |-> text,
                 query |-> query, found |-> found.result,
                 result |-> shown.result, after |-> found.projects]
  /\ UNCHANGED <<store, db, now, page, flow>>

\* Variant: the list is refreshed without the text filter.
refreshProjects_FiltersOnly(projects, searchQuery, filters, favorites) ==
  applyFilters(projects, filters, favorites).result

\* refreshProjects: the text filter, then the filters of the panel and the
\* sort; the value is state.filteredProjects.
refreshProjects(projects, searchQuery, filters, favorites) ==
  applyFilters(searchProjects(projects, searchQuery).result, filters, favorites).result

\* The visitor changes a filter of the panel while the page holds a query
\* (trimmed by the search box): the page keeps the filters and refreshes the
\* list.
FilterChange(projects, searchQuery, filters, favorites) ==
  /\ runs < MaxRuns
  /\ runs' = runs + 1
  /\ last' = [fn |-> "onFilterChange", projects |-> projects,
              query |-> searchQuery, filters |-> filters, favorites |-> favorites,
              result |-> refreshProjects(projects, searchQuery, filters, favorites)]
  /\ UNCHANGED <<store, db, now, page, flow>>

NextQuery ==
  \/ \E c \in 1..Len(QueryCollections), text \in Queries, language \in Languages,
        category \in Categories, o \in 1..Len(SORT_OPTIONS),
        showFavorites \in BOOLEAN, f \in 1..Len(FavoriteLists) :
       FilterChange(QueryCollections[c], trim(text),
                    [language |-> language, category |-> category,
                     sort |-> SORT_OPTIONS[o], showFavorites |-> showFavorites],
                    FavoriteLists[f])
  \/ \E c \in 1..Len(QueryCollections), query \in Queries :
       SearchProjectsCall(QueryCollections[c], query)
  \/ \E c \in 1..Len(QueryCollections), text \in Queries :
       SearchInput(QueryCollections[c], text)
  \/ \E c \in 1..Len(QueryCollections), language \in Languages,
        category \in Categories, o \in 1..Len(SORT_OPTIONS),
        showFavorites \in BOOLEAN, f \in 1..Len(FavoriteLists) :
       ApplyFiltersCall(QueryCollections[c],
                        [language |-> language, category |-> category,
                         sort |-> SORT_OPTIONS[o], showFavorites |-> showFavorites],
                        FavoriteLists[f])

SpecQuery == InitQuery /\ [][NextQuery]_vars

(* ------------------------------------------------------------------------ *)
(* Credentials: the auth endpoint issues a token, verifyAuth checks the      *)
(* Authorization header of a request                                         *)
(* ------------------------------------------------------------------------ *)

\* The printable characters of ASCII, from code 32 on (the grave accent, which
\* a string of one character cannot hold, by its name)
PrintableAscii ==
  <<" ", "!", "\"", "#", "$", "%", "&", "'", "(", ")", "*", "+", ",", "-",
    ".", "/", "0", "1", "2", "3", "4", "5", "6", "7", "8", "9", ":", ";",
    "<", "=", ">", "?", "@", "A", "B", "C", "D", "E", "F", "G", "H", "I",
    "J", "K", "L", "M", "N", "O", "P", "Q", "R", "S", "T", "U", "V", "W",
    "X", "Y", "Z", "[", "\\", "]", "^", "_", "grave", "a", "b", "c", "d", "e",
    "f", "g", "h", "i", "j", "k", "l", "m", "n", "o", "p", "q", "r", "s",
    "t", "u", "v", "w", "x", "y", "z", "{", "|", "}", "~">>

\* String.prototype.charCodeAt of a one-character string
charCodeAt(c) ==
  31 + (CHOOSE i \in 1..Len(PrintableAscii) : PrintableAscii[i] = c)

\* The alphabet of base64, from value 0 on
Base64Alphabet ==
  <<"A", "B", "C", "D", "E", "F", "G", "H", "I", "J", "K", "L", "M", "N",
    "O", "P", "Q", "R", "S", "T", "U", "V", "W", "X", "Y", "Z", "a", "b",
    "c", "d", "e", "f", "g", "h", "i", "j", "k", "l", "m", "n", "o", "p",
    "q", "r", "s", "t", "u", "v", "w", "x", "y", "z", "0", "1", "2", "3",
    "4", "5", "6", "7", "8", "9", "+", "/">>

Base64Char(v) == Base64Alphabet[v + 1]

Base64Value(c) ==
  (CHOOSE i \in 1..Len(Base64Alphabet) : Base64Alphabet[i] = c) - 1

\* btoa: three bytes give four characters, the last group is padded with "="
RECURSIVE btoa(_)
btoa(text) ==
  IF text = <<>> THEN <<>>
  ELSE LET b1 == charCodeAt(text[1])
           b2 == IF Len(text) > 1 THEN charCodeAt(text[2]) ELSE 0
           b3 == IF Len(text) > 2 THEN charCodeAt(text[3]) ELSE 0
           n == b1 * 65536 + b2 * 256 + b3
       IN <<Base64Char(n \div 262144), Base64Char((n \div 4096) % 64),
            IF Len(text) > 1 THEN Base64Char((n \div 64) % 64) ELSE "=",
            IF Len(text) > 2 THEN Base64Char(n % 64) ELSE "=">>
          \o (IF Len(text) > 3 THEN btoa(SubSeq(text, 4, Len(text))) ELSE <<>>)

\* The text is what btoa can give: groups of four characters of the alphabet,
\* "=" only at the end of the last group
IsBase64(text) ==
  /\ Len(text) % 4 = 0
  /\ \A i \in 1..Len(text) :
       \/ text[i] \in Range(Base64Alphabet)
       \/ /\ text[i] = "="
          /\ i >= Len(text) - 1
          /\ i = Len(text) - 1 => text[Len(text)] = "="

\* atob of a text that is base64 (anything else makes atob throw)
RECURSIVE atob(_)
atob(text) ==
  IF text = <<>> THEN <<>>
  ELSE LET v(i) == IF text[i] = "=" THEN 0 ELSE Base64Value(text[i])
           n == v(1) * 262144 + v(2) * 4096 + v(3) * 64 + v(4)
           byte(b) == PrintableAscii[b - 31]
       IN <<byte(n \div 65536)>>
          \o (IF text[3] = "=" THEN <<>> ELSE <<byte((n \div 256) % 256)>>)
          \o (IF text[4] = "=" THEN <<>> ELSE <<byte(n % 256)>>)
          \o atob(SubSeq(text, 5, Len(text)))

BASIC == <<"B", "a", "s", "i", "c", " ">>

\* env.ADMIN_USERNAME || 'admin'
adminUsername(env) ==
  IF env.ADMIN_USERNAME # <<>> THEN env.ADMIN_USERNAME ELSE <<"a", "d", "m", "i", "n">>

\* env.ADMIN_PASSWORD || 'admin123'
adminPassword(env) ==
  IF env.ADMIN_PASSWORD # <<>> THEN env.ADMIN_PASSWORD
  ELSE <<"a", "d", "m", "i", "n", "1", "2", "3">>

\* verifyAuth: authHeader is the Authorization header of the request, <<>>
\* when there is none.
verifyAuth(authHeader, env) ==
  IF authHeader = <<>> \/ ~startsWith(authHeader, BASIC) THEN FALSE
  ELSE LET base64Credentials == SubSeq(authHeader, 7, Len(authHeader))
       IN IF ~IsBase64(base64Credentials) THEN FALSE
          ELSE LET parts == split(atob(base64Credentials), ":", <<>>)
               IN /\ parts[1] = adminUsername(env)
                  /\ Len(parts) > 1
                  /\ parts[2] = adminPassword(env)

\* POST /api/auth with the body { username, password }
authPost(credentials, env) ==
  IF /\ credentials.username = adminUsername(env)
     /\ credentials.password = adminPassword(env)
  THEN [status |-> 200, success |-> TRUE,
        token |-> btoa(credentials.username \o <<":">> \o credentials.password)]
  ELSE [status |-> 401, success |-> FALSE, token |-> <<>>]

(* ------------------------------------------------------------------------ *)
(* The Pages Functions as any client of the network can call them: requests  *)
(* with and without credentials on tables of every kind                      *)
(* ------------------------------------------------------------------------ *)

MaxRequests == 2

\* The tables: after the save of earlierProject; with rows as a SQL console
\* or a migration can leave them, their tags column holding a JSON array, no
\* text, or text that is no JSON
RemoteTables ==
  <<RemoteSnapshots[2],
    [projects |->
       <<Spread(earlierProject, [tags |-> <<"[", "\"", "t", "\"", "]">>]),
         Spread(earlierProject, [id |-> <<"2">>, name |-> <<"c">>, stars |-> 7,
                                 tags |-> <<>>])>>,
     categories |-> <<seededCategory>>],
    [projects |->
       <<Spread(earlierProject, [tags |-> <<"[", "\"", "t", "\"", "]">>]),
         Spread(earlierProject, [id |-> <<"2">>, name |-> <<"c">>, stars |-> 7,
                                 tags |-> <<"t", ",", "u">>])>>,
     categories |-> <<seededCategory>>]>>

\* The environment of the deployment: no credentials set (the defaults
\* apply), a password of letters, a password with a colon in it
Envs ==
  <<[ADMIN_USERNAME |-> <<>>, ADMIN_PASSWORD |-> <<>>],
    [ADMIN_USERNAME |-> <<"a">>, ADMIN_PASSWORD |-> <<"b", "c">>],
    [ADMIN_USERNAME |-> <<"a">>, ADMIN_PASSWORD |-> <<"b", ":", "c">>]>>

\* Authorization headers a request can carry: none, another scheme, text that
\* is no base64, a wrong password, the admin's username and password, the
\* same followed by more text
AuthHeaders(env) ==
  LET pair == adminUsername(env) \o <<":">> \o adminPassword(env)
  IN {<<>>,
      <<"B", "e", "a", "r", "e", "r", " ">> \o btoa(pair),
      BASIC \o <<"x">>,
      BASIC \o btoa(adminUsername(env) \o <<":", "x">>),
      BASIC \o btoa(pair),
      BASIC \o btoa(pair \o <<":", "x">>)}

\* What the login form can send
LoginForms(env) ==
  {[username |-> adminUsername(env), password |-> adminPassword(env)],
   [username |-> adminUsername(env), password |-> <<"x">>],
   [username |-> <<"x">>, password |-> adminPassword(env)]}

Endpoints ==
  {"GET /api/projects", "POST /api/projects", "PUT /api/projects",
   "DELETE /api/projects", "GET /api/categories", "POST /api/categories",
   "POST /api/sync"}

\* The handler an endpoint reaches, with the body such a request carries;
\* verifyAuth is the first thing the writing handlers call.
Serve(endpoint, authHeader, env, fault) ==
  LET auth == IF verifyAuth(authHeader, env) THEN fault ELSE "unauth"
  IN CASE endpoint = "GET /api/projects" -> projectsGet(db, fault)
       [] endpoint = "GET /api/categories" -> categoriesGet(db, fault)
       [] endpoint = "POST /api/projects" ->
            projectsPost(db, [name |-> <<"u">>, owner |-> <<"a">>, stars |-> 5,
                              category |-> <<"t">>], auth, now)
       [] endpoint = "PUT /api/projects" ->
            projectsPut(db, [id |-> <<"1">>, name |-> <<"B">>, owner |-> <<"a">>,
                             stars |-> 7, category |-> <<>>], auth, now)
       [] endpoint = "DELETE /api/projects" -> projectsDelete(db, <<"1">>, auth)
       [] endpoint = "POST /api/categories" ->
            categoriesPost(db, [name |-> <<"u">>, slug |-> <<"u">>,
                                description |-> <<>>], auth, now)
       [] OTHER ->
            syncPost(db, [projects |-> <<Spread(earlierProject, [id |-> <<"3">>])>>,
                          categories |-> <<>>], auth, {}, now)

\* The deployment before any request; last holds its environment, the token
\* the admin page keeps in sessionStorage (none yet) and the last exchange.
InitRemote ==
  /\ store = EmptyStore
  /\ \E i \in 1..Len(RemoteTables) : db = RemoteTables[i]
  /\ now = 1
  /\ page = "login"
  /\ runs = 0
  /\ flow = [s \in Slots |-> IdleFlow]
  /\ \E e \in 1..Len(Envs) : last = [fn |-> "deploy", env |-> Envs[e], token |-> <<>>]

\* handleLogin: POST /api/auth; the token of a successful answer is kept.
Login(credentials) ==
  /\ runs < MaxRequests
  /\ runs' = runs + 1
  /\ LET answer == authPost(credentials, last.env)
     IN last' = [fn |-> "POST /api/auth", env |-> last.env,
                 token |-> IF answer.success /\ answer.token # <<>>
                           THEN answer.token ELSE last.token,
                 credentials |-> credentials, answer |-> answer]
  /\ UNCHANGED <<store, db, now, page, flow>>

\* A request of a client (the admin page or any other one) reaches an
\* endpoint.
Request(endpoint, authHeader, fault, client) ==
  /\ runs < MaxRequests
  /\ runs' = runs + 1
  /\ LET h == Serve(endpoint, authHeader, last.env, fault)
     IN /\ db' = h.db
        /\ last' = [fn |-> endpoint, env |-> last.env, token |-> last.token,
                    authHeader |-> authHeader, fault |-> fault,
                    client |-> client, body |-> h.body, dbBefore |-> db]
  /\ UNCHANGED <<store, now, page, flow>>

\* apiRequest of the admin page: the token kept, if any, goes into the
\* Authorization header.
ApiRequest(endpoint, fault) ==
  Request(endpoint,
          IF last.token # <<>> THEN BASIC \o last.token ELSE <<>>,
          fault, "admin page")

NextRemote ==
  \/ \E credentials \in LoginForms(last.env) : Login(credentials)
  \/ \E endpoint \in Endpoints, authHeader \in AuthHeaders(last.env),
        fault \in {"none", "db"} :
       Request(endpoint, authHeader, fault, "other")
  \/ \E endpoint \in Endpoints, fault \in {"none", "db"} :
       ApiRequest(endpoint, fault)

SpecRemote == InitRemote /\ [][NextRemote]_vars

(* ------------------------------------------------------------------------ *)
(* Properties of the Sync Coordinator contract                                *)
(* ------------------------------------------------------------------------ *)

\* The coordinator call op of slot s has just returned.
Returned(s, op) == flow[s].phase = "returned" /\ flow[s].call = op

\* The request was answered without a success: it threw, or an error result.
WriteFailed(f) == f.resp.threw \/ ~Truthy(f.resp.body, "success")

\* The read was answered without the collection key.
ReadFailed(f, key) == f.resp.threw \/ ~Has(f.resp.body, key)

\* Every local collection other than key is what it was in old.
OthersUnchanged(new, old, key) ==
  /\ DOMAIN new \ {key} = DOMAIN old \ {key}
  /\ \A k \in DOMAIN new \ {key} : new[k] = old[k]

\* C1: when the remote create fails (the request throws or an error result
\* comes back), addProject / addCategory leaves the locally-constructed entity
\* in the local mirror and returns a success marked local-only.
C1_FailedCreateFallsBackToLocal ==
  \A s \in Slots :
    /\ (Returned(s, "addProject") /\ WriteFailed(flow[s]))
         => /\ flow[s].ret = localResult
            /\ addProjectEntity(flow[s].pdata, flow[s].at) \in Range(getProjects(store))
    /\ (Returned(s, "addCategory") /\ WriteFailed(flow[s]))
         => /\ flow[s].ret = localResult
            /\ flow[s].cdata \in Range(getCategories(store))

\* C2: whatever the remote outcome, deleteProject / deleteCategory leaves no
\* entry with that id in the local mirror.
C2_DeleteAlwaysRemovesLocally ==
  \A s \in Slots :
    /\ Returned(s, "deleteProject") => ~HasRow(getProjects(store), flow[s].id)
    /\ Returned(s, "deleteCategory") => ~HasRow(getCategories(store), flow[s].id)

\* C3: whatever the remote outcome, updateProject on an id of the local
\* mirror leaves the old entry shallow-merged with the update, updated_at
\* being the current date.
C3_UpdateAlwaysMergesLocally ==
  \A s \in Slots :
    (Returned(s, "updateProject") /\ HasRow(getProjects(flow[s].before), flow[s].id))
      => LET old == getProjects(flow[s].before)
             index == findIndex(old, flow[s].id)
         IN getProjects(store) =
              [old EXCEPT ![index] =
                 Spread(Spread(old[index], flow[s].pdata),
                        [updated_at |-> today(flow[s].at)])]

\* C4: when the remote read fails (it throws or an error result comes back),
\* fetchProjects / fetchCategories returns the current local collection and
\* leaves every local collection unchanged.
C4_FailedReadReturnsLocal ==
  \A s \in Slots :
    /\ (Returned(s, "fetchProjects") /\ ReadFailed(flow[s], "projects"))
         => /\ flow[s].list = getProjects(flow[s].before)
            /\ store = flow[s].before
    /\ (Returned(s, "fetchCategories") /\ ReadFailed(flow[s], "categories"))
         => /\ flow[s].list = getCategories(flow[s].before)
            /\ store = flow[s].before

\* C4 happens: an error result answers the read of a non-empty mirror, and a
\* thrown request the read of the categories.
C4_Witness ==
  \E s \in Slots :
    /\ Returned(s, "fetchProjects")
    /\ ~flow[s].resp.threw
    /\ Has(flow[s].resp.body, "error")
    /\ flow[s].list # <<>>

\* C5: when the remote read succeeds, fetchProjects / fetchCategories returns
\* the remote result, the local collection equals it afterwards (an empty
\* result included) and the other local collections are unchanged.
C5_SuccessfulReadRefreshesMirror ==
  \A s \in Slots :
    /\ (Returned(s, "fetchProjects") /\ ~ReadFailed(flow[s], "projects"))
         => /\ flow[s].resp.body.projects = OrderByStarsDesc(flow[s].dbBefore.projects)
            /\ flow[s].list = flow[s].resp.body.projects
            /\ KEYS.PROJECTS \in DOMAIN store
            /\ getProjects(store) = flow[s].resp.body.projects
            /\ OthersUnchanged(store, flow[s].before, KEYS.PROJECTS)
    /\ (Returned(s, "fetchCategories") /\ ~ReadFailed(flow[s], "categories"))
         => /\ flow[s].resp.body.categories = OrderByName(flow[s].dbBefore.categories)
            /\ flow[s].list = flow[s].resp.body.categories
            /\ KEYS.CATEGORIES \in DOMAIN store
            /\ getCategories(store) = flow[s].resp.body.categories
            /\ OthersUnchanged(store, flow[s].before, KEYS.CATEGORIES)

\* C5 happens: an empty remote result has replaced a non-empty mirror.
C5_Witness ==
  \E s \in Slots :
    /\ Returned(s, "fetchProjects")
    /\ ~ReadFailed(flow[s], "projects")
    /\ flow[s].resp.body.projects = <<>>
    /\ getProjects(flow[s].before) # <<>>
    /\ getProjects(store) = <<>>

\* The handler kind of slot s is over; its toast is on screen.
Done(s, kind) == flow[s].kind = kind /\ flow[s].pc = "done"

SameProject(a, b) == a.owner = b.owner /\ a.name = b.name /\ a.stars = b.stars

EqualIgnoringCase(a, b) == toLowerCase(a) = toLowerCase(b)

\* The first read of the project save handler after its write has returned.
FirstReadAfterWrite(s) ==
  /\ flow[s].kind = "saveProject"
  /\ flow[s].pc = "reload"
  /\ Returned(s, "fetchProjects")
  /\ Len(flow[s].todo) = Len(loadProjectsTable \o loadDashboardStats
                             \o loadRecentProjects) - 1

\* C6: when a create, update or delete handler shows its success
\* notification, the local mirror reflects the mutation at the end of the
\* handler: the created entity is present, the update is merged, the deleted
\* id is absent.
C6_ReportedSuccessMatchesMirror ==
  \A s \in Slots :
    LET f == flow[s]
        projects == getProjects(store)
    IN /\ (Done(s, "saveProject") /\ f.toast = "success" /\ f.editId = <<>>)
            => \E i \in 1..Len(projects) : SameProject(projects[i], f.pdata)
       /\ (Done(s, "saveProject") /\ f.toast = "success" /\ f.editId # <<>>
              /\ HasRow(getProjects(f.wbefore), f.editId))
            => \E i \in 1..Len(projects) :
                 projects[i].id = f.editId /\ SameProject(projects[i], f.pdata)
       /\ (Done(s, "deleteProject") /\ f.toast = "success")
            => ~HasRow(projects, f.id)
       /\ (Done(s, "saveCategory") /\ f.toast = "success" /\ f.editId = <<>>)
            => HasRow(getCategories(store), f.cdata.slug)
       /\ (Done(s, "deleteCategory") /\ f.toast = "success")
            => ~HasRow(getCategories(store), f.id)

\* C7: after addProject(p) succeeded (synced or local-only), the read that
\* follows it, made while the remote is unreachable, returns a collection
\* holding an entity with the owner, name and stars of p.
C7_CreateThenReadUnreachable ==
  \A s \in Slots :
    (/\ FirstReadAfterWrite(s)
     /\ flow[s].editId = <<>>
     /\ Truthy(flow[s].wret, "success")
     /\ flow[s].resp.threw)
      => \E i \in 1..Len(flow[s].list) : SameProject(flow[s].list[i], flow[s].pdata)

\* C7 happens: a local-only add, then a read that throws.
C7_Witness ==
  \E s \in Slots :
    /\ FirstReadAfterWrite(s)
    /\ flow[s].editId = <<>>
    /\ Truthy(flow[s].wret, "local")
    /\ flow[s].resp.threw
    /\ flow[s].list # <<>>

\* C8: within one handler, the read that follows a completed create or
\* update (synced or local-only) returns a collection reflecting the write,
\* the remote being reachable or not at the time of the read.
C8_ReadAfterWriteObservesWrite ==
  \A s \in Slots :
    LET f == flow[s]
    IN /\ (FirstReadAfterWrite(s) /\ f.editId = <<>> /\ Truthy(f.wret, "success"))
            => \E i \in 1..Len(f.list) : SameProject(f.list[i], f.pdata)
       /\ (FirstReadAfterWrite(s) /\ f.editId # <<>> /\ Truthy(f.wret, "success")
              /\ HasRow(getProjects(f.wbefore), f.editId))
            => \E i \in 1..Len(f.list) :
                 f.list[i].id = f.editId /\ SameProject(f.list[i], f.pdata)

\* The collection the duplicate check of the new project of slot s read holds
\* a project with the same owner and name, letter case apart.
DuplicateProjectRead(s) ==
  /\ flow[s].kind = "saveProject"
  /\ flow[s].editId = <<>>
  /\ flow[s].pc \notin {"idle", "check"}
  /\ \E i \in 1..Len(flow[s].checked) :
       /\ EqualIgnoringCase(flow[s].checked[i].owner, flow[s].pdata.owner)
       /\ EqualIgnoringCase(flow[s].checked[i].name, flow[s].pdata.name)

\* C9 as amended: a new project whose owner and name equal, letter case
\* apart, those of a project of the collection the duplicate check read is
\* rejected; the remote store is not written, and the local mirror changes
\* only by the cache refresh of that read (the projects collection is the
\* collection read, the other collections are untouched).
C9_DuplicateRejectedAfterRefresh ==
  \A s \in Slots :
    DuplicateProjectRead(s)
      => /\ flow[s].pc = "done"
         /\ flow[s].toast = "error"
         /\ db = flow[s].dbBefore
         /\ getProjects(store) = flow[s].checked
         /\ OthersUnchanged(store, flow[s].before, KEYS.PROJECTS)

\* C9 happens: ("A", "B") is rejected against a stored ("a", "b").
C9_Witness ==
  \E s \in Slots :
    /\ DuplicateProjectRead(s)
    /\ flow[s].toast = "error"
    /\ \A i \in 1..Len(flow[s].checked) :
         flow[s].checked[i].owner # flow[s].pdata.owner

\* C9 as stated: the duplicate is rejected and neither the remote store nor
\* the local mirror is written before the rejection.
C9_DuplicateRejectedBeforeAnyWrite ==
  \A s \in Slots :
    DuplicateProjectRead(s)
      => /\ flow[s].pc = "done"
         /\ flow[s].toast = "error"
         /\ db = flow[s].dbBefore
         /\ store = flow[s].before

\* C10: a new category is rejected whenever a category of the collection the
\* duplicate check read has a slug or an id equal to the new slug, letter
\* case apart.
C10_DuplicateSlugRejectedAnyCase ==
  \A s \in Slots :
    (/\ flow[s].kind = "saveCategory"
     /\ flow[s].editId = <<>>
     /\ flow[s].pc \notin {"idle", "check"}
     /\ \E i \in 1..Len(flow[s].checked) :
          \/ EqualIgnoringCase(flow[s].checked[i].slug, flow[s].cdata.slug)
          \/ EqualIgnoringCase(flow[s].checked[i].id, flow[s].cdata.slug))
      => flow[s].pc = "done" /\ flow[s].toast = "error"

(* ------------------------------------------------------------------------ *)
(* Properties of import, export and sync                                      *)
(* ------------------------------------------------------------------------ *)

\* What the accessors of the Local Cache Store show
Observed(st) ==
  [projects |-> getProjects(st),
   categories |-> getCategories(st),
   tags |-> getTags(st),
   favorites |-> getFavorites(st),
   settings |-> getSettings(st)]

\* importData has run in the import handler of slot s.
Imported(s) == flow[s].kind = "importFile" /\ flow[s].pc = "write"

\* C14: importData(exportAllData()) leaves projects, categories, tags,
\* favorites and settings, as their accessors show them, what they were
\* before the export: in every reachable state of the storage, and in the
\* import handler given the file just exported.
C14_ExportImportRoundTrip ==
  /\ Observed(importData(store, exportAllData(store, now))) = Observed(store)
  /\ \A s \in Slots :
       (Imported(s) /\ flow[s].file = Len(BackupFiles) + 1)
         => Observed(store) = Observed(flow[s].start)

\* C14 happens: the exported file of a storage with projects and favorites
\* has been imported.
C14_Witness ==
  \E s \in Slots :
    /\ Imported(s)
    /\ flow[s].file = Len(BackupFiles) + 1
    /\ getProjects(flow[s].start) # <<>>
    /\ getFavorites(flow[s].start) # <<>>

\* C15: importData(data) replaces each of projects, categories, tags,
\* favorites and settings present in data by exactly the supplied value and
\* leaves each collection absent from data unchanged.
C15_ImportOverwritesPresentOnly ==
  \A s \in Slots :
    (Imported(s) /\ flow[s].file \in 1..Len(BackupFiles))
      => LET data == BackupFiles[flow[s].file]
             new == Observed(store)
             old == Observed(flow[s].start)
         IN \A k \in DOMAIN new :
              new[k] = IF Has(data, k) THEN data[k] ELSE old[k]

\* C16: deleting an id that is not in the local mirror raises no error (a
\* result is returned) and leaves the mirror unchanged; deleting the same id
\* twice leaves what deleting it once leaves.
C16_DeleteAbsentIdIsNoOp ==
  /\ \A id \in ProjectIds :
       deleteProject(deleteProject(store, id), id) = deleteProject(store, id)
  /\ \A id \in CategoryIds :
       spliceCategory(spliceCategory(store, id), id) = spliceCategory(store, id)
  /\ \A s \in Slots :
       /\ (Returned(s, "deleteProject")
             /\ ~HasRow(getProjects(flow[s].before), flow[s].id))
            => /\ Observed(store) = Observed(flow[s].before)
               /\ flow[s].ret \in {localResult, flow[s].resp.body}
       /\ (Returned(s, "deleteCategory")
             /\ ~HasRow(getCategories(flow[s].before), flow[s].id))
            => /\ store = flow[s].before
               /\ flow[s].ret \in {localResult, flow[s].resp.body}

\* C16 happens: the delete of an id absent from a non-empty mirror has run
\* its local removal.
C16_Witness ==
  \E s \in Slots :
    /\ Returned(s, "deleteProject")
    /\ ~HasRow(getProjects(flow[s].before), flow[s].id)
    /\ getProjects(flow[s].before) # <<>>
    /\ Truthy(flow[s].ret, "success")

\* C17: updating an id that is not in the local mirror leaves the mirror
\* unchanged, the local update returning null, while the remote update
\* request for that id is still issued (and applied by the remote when it
\* succeeds).
C17_UpdateAbsentIdIsLocalNoOp ==
  \A s \in Slots :
    (Returned(s, "updateProject")
       /\ ~HasRow(getProjects(flow[s].before), flow[s].id))
      => /\ store = flow[s].before
         /\ updateProjectResult(flow[s].before, flow[s].id, flow[s].pdata,
                                 flow[s].at) = null
         /\ flow[s].reqs = 1
         /\ Truthy(flow[s].resp.body, "success")
              => \A i \in 1..Len(db.projects) :
                   db.projects[i].id = flow[s].id
                     => SameProject(db.projects[i], flow[s].pdata)

\* C17 happens: the update of an id absent from the mirror was accepted by
\* the remote.
C17_Witness ==
  \E s \in Slots :
    /\ Returned(s, "updateProject")
    /\ ~HasRow(getProjects(flow[s].before), flow[s].id)
    /\ getProjects(flow[s].before) # <<>>
    /\ Truthy(flow[s].ret, "success")

\* C18: every coordinator operation sends one request and no more, and
\* completes by returning a result, a remote failure included: a read
\* returns the collection of the mirror, a write a result object.
C18_OneRequestThenAResult ==
  \A s \in Slots :
    /\ flow[s].reqs <= 1
    /\ flow[s].phase # "none" => flow[s].reqs = 1
    /\ Returned(s, "fetchProjects") => flow[s].list = getProjects(store)
    /\ Returned(s, "fetchCategories") => flow[s].list = getCategories(store)
    /\ (flow[s].phase = "returned"
          /\ flow[s].call \notin {"fetchProjects", "fetchCategories"})
         => /\ flow[s].ret # NoBody
            /\ flow[s].resp.threw
                 => flow[s].ret \in {localResult,
                                     [success |-> FALSE, error |-> "failed"]}

\* C18 happens: a write and a read whose request threw have returned.
C18_Witness ==
  \E s \in Slots :
    /\ flow[s].phase = "returned"
    /\ flow[s].resp.threw
    /\ flow[s].call = "sync"
    /\ flow[s].nreq = 1

\* C19: a project save with an empty name or owner, and a category save
\* with an empty name or slug or a slug outside ^[a-z0-9-]+$, is rejected
\* with no request sent and no change of the storage.
C19_InvalidFormRejectedUntouched ==
  \A s \in Slots :
    LET f == flow[s]
        invalid ==
          \/ f.kind = "saveProject" /\ (f.pdata.name = <<>> \/ f.pdata.owner = <<>>)
          \/ f.kind = "saveCategory"
               /\ \/ f.cdata.name = <<>>
                  \/ f.cdata.slug = <<>>
                  \/ \E i \in 1..Len(f.cdata.slug) : f.cdata.slug[i] \notin SlugChars
    IN invalid => /\ f.pc = "done"
                  /\ f.toast = "error"
                  /\ f.nreq = 0
                  /\ store = f.start

\* C19 happens: a category whose slug holds a blank has been rejected.
C19_Witness ==
  \E s \in Slots :
    /\ Done(s, "saveCategory")
    /\ flow[s].toast = "error"
    /\ \E i \in 1..Len(flow[s].cdata.slug) : flow[s].cdata.slug[i] = " "

\* POST /api/sync has answered the syncDataToD1 of slot s with its counts.
Synced(s) == Returned(s, "sync") /\ Truthy(flow[s].resp.body, "success")

\* The entries of the sent collection whose upsert succeeded
Upserted(s, sent) == {i \in 1..Len(sent) : sent[i].id \notin flow[s].failed}

\* row holds every field of entity that the table keeps.
HoldsFields(row, entity) ==
  \A k \in DOMAIN entity \cap DOMAIN row : row[k] = entity[k]

\* C12: syncAll sends every project and category of the local mirror; the
\* remote upserts them one by one, a failure on one not stopping the others
\* (an entity whose upsert succeeded is in its table, one whose upsert
\* failed left its row as it was), and the counts returned are the numbers
\* of projects and categories whose upsert succeeded.
C12_SyncContinuesPastFailures ==
  \A s \in Slots :
    Synced(s)
      => LET ps == flow[s].payload.projects
             cs == flow[s].payload.categories
             was == flow[s].dbBefore
         IN /\ ps = getProjects(store)
            /\ cs = getCategories(store)
            /\ flow[s].ret.results.projects = Cardinality(Upserted(s, ps))
            /\ flow[s].ret.results.categories = Cardinality(Upserted(s, cs))
            /\ \A i \in Upserted(s, ps) :
                 \E j \in 1..Len(db.projects) :
                   db.projects[j].id = ps[i].id /\ HoldsFields(db.projects[j], ps[i])
            /\ \A i \in Upserted(s, cs) :
                 \E j \in 1..Len(db.categories) :
                   db.categories[j].id = cs[i].id
                     /\ HoldsFields(db.categories[j], cs[i])
            /\ \A i \in (1..Len(ps)) \ Upserted(s, ps) :
                 {r \in Range(db.projects) : r.id = ps[i].id}
                   = {r \in Range(was.projects) : r.id = ps[i].id}
            /\ \A i \in (1..Len(cs)) \ Upserted(s, cs) :
                 {r \in Range(db.categories) : r.id = cs[i].id}
                   = {r \in Range(was.categories) : r.id = cs[i].id}

\* C12 happens: of two projects sent, the upsert of the first failed and
\* that of the second succeeded.
C12_Witness ==
  \E s \in Slots :
    /\ Synced(s)
    /\ Len(flow[s].payload.projects) = 2
    /\ flow[s].payload.projects[1].id \in flow[s].failed
    /\ flow[s].payload.projects[2].id \notin flow[s].failed
    /\ flow[s].ret.results.projects = 1

\* C13: syncAll run twice in a row on an unchanged local mirror leaves the
\* remote store as the first run left it, and after a run whose upserts all
\* succeeded every entity of the mirror is in the remote store under its id
\* with the mirror's field values.
C13_SyncIsIdempotent ==
  \A s \in Slots :
    (Synced(s) /\ flow[s].failed = {})
      => /\ \A i \in 1..Len(getProjects(store)) :
              \E j \in 1..Len(db.projects) :
                /\ db.projects[j].id = getProjects(store)[i].id
                /\ HoldsFields(db.projects[j], getProjects(store)[i])
         /\ \A i \in 1..Len(getCategories(store)) :
              \E j \in 1..Len(db.categories) :
                /\ db.categories[j].id = getCategories(store)[i].id
                /\ HoldsFields(db.categories[j], getCategories(store)[i])
         /\ (/\ flow[s].prev.ok
             /\ flow[s].prev.payload = flow[s].payload
             /\ flow[s].prev.db = flow[s].dbBefore)
              => db = flow[s].prev.db

\* The bulk importer has run to its toast on n > 0 identifiers.
BulkImported(s) == Done(s, "bulkImport") /\ flow[s].urls # <<>>

\* The fetched repository r is, whatever the case, one of the existing ones.
KnownRepo(existing, r) ==
  \E j \in 1..Len(existing) :
    /\ EqualIgnoringCase(existing[j].owner, r.data.owner)
    /\ EqualIgnoringCase(existing[j].name, r.data.name)

\* C11: on n identifiers the bulk importer reports as failedCount the number
\* of identifiers whose fetch failed, as skippedCount the number of fetched
\* repositories whose owner and name equal, whatever the case, those of a
\* project of the existing collection, and as addedCount the number of the
\* other fetched repositories, each passed exactly once to the coordinator's
\* create; the three counts add up to n.
C11_BulkImportCounts ==
  \A s \in Slots :
    BulkImported(s) =>
      LET f == flow[s]
          n == Len(f.urls)
          failed == {i \in 1..n : ~f.results[i].success}
          known == {i \in 1..n : f.results[i].success
                                   /\ KnownRepo(f.checked, f.results[i])}
          other == (1..n) \ (failed \cup known)
          rest == SelectSeq(f.results,
                            LAMBDA r : r.success /\ ~KnownRepo(f.checked, r))
      IN /\ Len(f.results) = n
         /\ \A i \in 1..n : f.results[i].url = f.urls[i]
         /\ f.failedCount = Cardinality(failed)
         /\ f.skippedCount = Cardinality(known)
         /\ f.addedCount = Cardinality(other)
         /\ f.addedCount + f.skippedCount + f.failedCount = n
         /\ Len(f.created) = Len(rest)
         /\ \A i \in 1..Len(rest) :
              /\ f.created[i].owner = rest[i].data.owner
              /\ f.created[i].name = rest[i].data.name
              /\ f.created[i].github_url = rest[i].url
         /\ f.nreq = 1 + Len(rest) + Len(loadProjectsTable \o loadDashboardStats)

\* Three identifiers were imported: one already there under another case, one
\* whose fetch failed, one new; the importer reported 1 / 1 / 1.
C11_Witness ==
  \E s \in Slots :
    /\ BulkImported(s)
    /\ Len(flow[s].urls) = 3
    /\ flow[s].results[1].success
    /\ flow[s].results[1].data.owner = <<"A">>
    /\ \E j \in 1..Len(flow[s].checked) : flow[s].checked[j].owner = <<"a">>
    /\ ~flow[s].results[2].success
    /\ flow[s].results[3].success
    /\ flow[s].addedCount = 1
    /\ flow[s].skippedCount = 1
    /\ flow[s].failedCount = 1

\* The category delete handler of slot s took the category out of the mirror.
CategoryRemoved(s) ==
  LET f == flow[s]
  IN /\ f.kind = "deleteCategory"
     /\ f.wat > 0
     /\ HasRow(getCategories(f.wbefore), f.id)
     /\ ~HasRow(getCategories(deleteCategoryFromApi(f.wbefore, f.id, f.wresp).st), f.id)

\* C20: no category is removed while a project references it: once a category
\* delete handler that removed its category is over, and the category is still
\* gone, no project of the collection the mirror then holds (the freshest one
\* the coordinator reached) has the deleted id as its category, whatever other
\* handler ran between the reference check and the removal.
C20_NoReferencedCategoryRemoved ==
  \A s \in Slots :
    (/\ Done(s, "deleteCategory")
     /\ CategoryRemoved(s)
     /\ ~HasRow(getCategories(store), flow[s].id))
      => \A i \in 1..Len(getProjects(store)) :
           getProjects(store)[i].category # flow[s].id

\* The same field with the same value, or the field missing in both
SameField(a, b, k) == Has(a, k) = Has(b, k) /\ (Has(a, k) => a[k] = b[k])

\* The coordinator's update of slot s has run storage's updateProject on an
\* entry of the mirror.
LocallyUpdated(s) ==
  /\ Returned(s, "updateProject")
  /\ HasRow(getProjects(flow[s].before), flow[s].id)
  /\ flow[s].resp.threw \/ Truthy(flow[s].resp.body, "success")

\* PUT /api/projects has updated a row of the table.
RemotelyUpdated(s) ==
  /\ Returned(s, "updateProject")
  /\ HasRow(flow[s].dbBefore.projects, flow[s].id)
  /\ Truthy(flow[s].resp.body, "success")

C22_CreateRequestCarriesIdentity ==
  \A s \in Slots :
    (flow[s].call = "addProject" /\ flow[s].phase = "sent")
      => /\ Has(flow[s].pdata, "id")
         /\ Has(flow[s].pdata, "created_at")
         /\ Has(flow[s].pdata, "updated_at")

\* The marker initStorage reads
Marker(st) == get(st, KEYS.DATA_VERSION, <<>>)

\* C23: initStorage(defaultData) writes defaultData's projects, categories and
\* tags and sets the marker to the current version exactly when the stored
\* marker is missing or different (favorites and settings staying as they
\* are); when the marker is current the call leaves the whole storage
\* unchanged, whatever the collections have become.
C23_InitStorageOncePerVersion ==
  last.fn = "initStorage" =>
    IF Marker(last.before) = CURRENT_VERSION
    THEN store = last.before
    ELSE /\ getProjects(store) = defaultData.projects
         /\ getCategories(store) = defaultData.categories
         /\ getTags(store) = defaultData.tags
         /\ Marker(store) = CURRENT_VERSION
         /\ getFavorites(store) = getFavorites(last.before)
         /\ getSettings(store) = getSettings(last.before)

\* initStorage was called again under the current marker on collections that
\* are no longer the default ones, favorites and settings included.
C23_Witness ==
  /\ last.fn = "initStorage"
  /\ Marker(last.before) = CURRENT_VERSION
  /\ getProjects(last.before) # defaultData.projects
  /\ getCategories(last.before) # defaultData.categories
  /\ getFavorites(last.before) # <<>>
  /\ getSettings(last.before) # defaultSettings

\* C24: setSettings(s) stores the shallow merge of the existing settings with
\* s: every key of s has the value s gives it, every other key of the existing
\* settings keeps its value, and there is no further key.
C24_SetSettingsMerges ==
  last.fn = "setSettings" =>
    LET old == getSettings(last.before)
        new == getSettings(store)
    IN /\ DOMAIN new = DOMAIN old \cup DOMAIN last.settings
       /\ \A k \in DOMAIN last.settings : new[k] = last.settings[k]
       /\ \A k \in DOMAIN old \ DOMAIN last.settings : new[k] = old[k]
       /\ \A k \in (DOMAIN store \cup DOMAIN last.before) \ {KEYS.SETTINGS, UNPARSABLE} :
            /\ k \in DOMAIN store /\ k \in DOMAIN last.before
            /\ store[k] = last.before[k]
            /\ k \in Unparsable(store) <=> k \in Unparsable(last.before)

\* Settings holding a key the page does not know were given another theme.
C24_Witness ==
  /\ last.fn = "setSettings"
  /\ KEYS.SETTINGS \in DOMAIN last.before
  /\ Has(getSettings(last.before), "lang")
  /\ Has(last.settings, "theme")
  /\ last.settings.theme # getSettings(last.before).theme
  /\ getSettings(store).lang = getSettings(last.before).lang

\* C25: get(key, default) returns the parsed value when the key holds text
\* that parses, and the default given when the key is absent or its text does
\* not parse (no exception reaches the caller); the storage is not changed.
C25_GetFallsBackToDefault ==
  last.fn = "get" =>
    /\ store = last.before
    /\ IF last.key \in DOMAIN store /\ last.key \notin Unparsable(store)
       THEN last.result = store[last.key]
       ELSE last.result = last.defaultValue

\* A key whose text does not parse was read.
C25_Witness ==
  /\ last.fn = "get"
  /\ last.key \in Unparsable(store)
  /\ last.result = last.defaultValue

\* The step is the start of a backup file's import (importData writes the
\* favorites of the file).
ImportStep ==
  \E s \in Slots : flow[s].kind = "idle" /\ flow'[s].kind = "importFile"

\* C26: favorites live apart from projects: no create, update or delete of a
\* project, no fetch, no syncAll and no initStorage changes the favorites (only
\* the import of a backup file does), so the favorite of a deleted project
\* stays.
C26_FavoritesOutliveProjects ==
  [][getFavorites(store') # getFavorites(store) => ImportStep]_vars

\* A project that was a favorite has been deleted from the mirror and is still
\* a favorite.
C26_Witness ==
  \E s \in Slots :
    /\ Returned(s, "deleteProject")
    /\ HasRow(getProjects(flow[s].before), flow[s].id)
    /\ ~HasRow(getProjects(store), flow[s].id)
    /\ flow[s].id \in Range(getFavorites(store))

\* The lower-cased query is part of the lower-cased name, owner, description or
\* language of the project, or of one of its tags.
Mentions(p, query) ==
  \/ \E k \in {"name", "owner", "description", "language"} :
       Has(p, k) /\ includes(toLowerCase(p[k]), toLowerCase(query))
  \/ /\ Has(p, "tags")
     /\ \E t \in Range(p.tags) : includes(toLowerCase(t), toLowerCase(query))

\* C27: for every non-empty query searchProjects returns, in the order of the
\* input, exactly the projects whose name, owner, description, language or
\* some tag contains the query when both are lower-cased; nothing is returned
\* that was not in the input, and the input is left as it was.
C27_SearchMatchesIgnoringCase ==
  last.fn = "searchProjects" /\ last.query # <<>>
    => /\ last.result = SelectSeq(last.projects, LAMBDA p : Mentions(p, last.query))
       /\ Range(last.result) \subseteq Range(last.projects)
       /\ last.after = last.projects

\* A query found through a name and through a tag written in another case:
\* two of three projects are returned.
C27_Witness ==
  /\ last.fn = "searchProjects"
  /\ last.query = <<"a", "b">>
  /\ Len(last.projects) = 3
  /\ IdsOf(last.result) = {<<"1">>, <<"3">>}

\* C28: for an empty query and for a query of blanks only, searchProjects
\* returns the collection it was given and leaves it as it was.
C28_BlankQueryIsIdentity ==
  last.fn = "searchProjects" /\ trim(last.query) = <<>>
    => last.result = last.projects /\ last.after = last.projects

\* The three tests of the filter panel, each on its own
LanguageTest(p, filters) ==
  filters.language = ALL \/ (Has(p, "language") /\ p.language = filters.language)

CategoryTest(p, filters) ==
  filters.category = ALL \/ (Has(p, "category") /\ p.category = filters.category)

FavoriteTest(p, filters, favorites) ==
  ~filters.showFavorites \/ p.id \in Range(favorites)

\* The three tests applied one after the other, in the order given by a
\* permutation of <<"language", "category", "favorites">>
After(projects, filters, favorites, test) ==
  IF test = "language" THEN SelectSeq(projects, LAMBDA p : LanguageTest(p, filters))
  ELSE IF test = "category" THEN SelectSeq(projects, LAMBDA p : CategoryTest(p, filters))
  ELSE SelectSeq(projects, LAMBDA p : FavoriteTest(p, filters, favorites))

InOrder(projects, filters, favorites, order) ==
  After(After(After(projects, filters, favorites, order[1]),
              filters, favorites, order[2]),
        filters, favorites, order[3])

TestOrders ==
  {order \in [1..3 -> {"language", "category", "favorites"}] :
     \A i, j \in 1..3 : i # j => order[i] # order[j]}

\* The projects that pass the three tests, in the order of the input
Passing(projects, filters, favorites) ==
  SelectSeq(projects, LAMBDA p : /\ LanguageTest(p, filters)
                                 /\ CategoryTest(p, filters)
                                 /\ FavoriteTest(p, filters, favorites))

\* Number of times x is in the sequence
Count(seq, x) == Cardinality({i \in 1..Len(seq) : seq[i] = x})

IsPermutation(a, b) ==
  /\ Len(a) = Len(b)
  /\ \A x \in Range(a) \cup Range(b) : Count(a, x) = Count(b, x)

Ordered(a, b, sortValue) ==
  LET field == split(sortValue, "-", <<>>)[1]
      order == split(sortValue, "-", <<>>)[2]
      first == IF order = ASC THEN a ELSE b
      second == IF order = ASC THEN b ELSE a
  IN IF field = STARS THEN first.stars <= second.stars
     ELSE IF field = UPDATED THEN first.updated_at <= second.updated_at
     ELSE TextLeq(toLowerCase(first.name), toLowerCase(second.name))

\* C30: with a sort value made of stars, name or updated and of asc or desc,
\* applyFilters returns the projects that pass the filters, each as many times
\* as it passed, and every two neighbours of the result are in the order of
\* the field (stars as numbers, updated as dates, names without regard to
\* case), rising for asc and falling for desc; stars of 10, 500 and 10000
\* under stars-desc come out as 10000, 500, 10.
C30_SortOrdersNeighbours ==
  last.fn = "applyFilters"
    => /\ IsPermutation(last.result,
                        Passing(last.projects, last.filters, last.favorites))
       /\ \A i \in 1..(Len(last.result) - 1) :
            Ordered(last.result[i], last.result[i + 1], last.filters.sort)
       /\ (/\ last.filters.sort = SORT_OPTIONS[1]
           /\ [i \in 1..Len(last.projects) |-> last.projects[i].stars]
                = <<10, 500, 10000>>
           /\ Len(last.result) = 3)
            => [i \in 1..3 |-> last.result[i].stars] = <<10000, 500, 10>>

\* Stars of 10, 500 and 10000 were sorted by stars-desc and none was filtered
\* out.
C30_Witness ==
  /\ last.fn = "applyFilters"
  /\ last.filters.sort = SORT_OPTIONS[1]
  /\ [i \in 1..Len(last.projects) |-> last.projects[i].stars] = <<10, 500, 10000>>
  /\ [i \in 1..Len(last.result) |-> last.result[i].stars] = <<10000, 500, 10>>

\* The list as it would be with the two filters the other way round: the
\* filters of the panel (and the sort), then the text filter
Swapped(projects, searchQuery, filters, favorites) ==
  searchProjects(applyFilters(projects, filters, favorites).result, searchQuery).result

\* The text filter and the favorites filter each remove a project the other
\* one keeps.
FiltersInteract ==
  /\ last.fn = "onFilterChange"
  /\ last.filters.showFavorites
  /\ last.query # <<>>
  /\ \E p \in Range(last.projects) :
       ~Mentions(p, last.query) /\ p.id \in Range(last.favorites)
  /\ \E p \in Range(last.projects) :
       Mentions(p, last.query) /\ p.id \notin Range(last.favorites)

Batching(s) ==
  flow[s].kind = "bulkImport" /\ flow[s].pc \notin {"existing", "idle"}
    /\ flow[s].urls # <<>>

\* C32: the bulk importer fetches one url at a time, in the order of the
\* input: while the fetch of an item is awaited, the outcome of every item
\* before it is recorded and the progress callback has been called for it;
\* the callback is called once for each url, with the counts 1, 2, ..., n,
\* the same total n and the outcome of that url, and the items after a
\* failed one are fetched all the same.
C32_FetchesOneByOneWithProgress ==
  \A s \in Slots :
    Batching(s)
      => LET f == flow[s]
             n == Len(f.urls)
             done == n - Len(f.tofetch)
         IN /\ Len(f.results) = done
            /\ Len(f.progress) = done
            /\ \A i \in 1..done :
                 /\ f.results[i].url = f.urls[i]
                 /\ f.progress[i] = [current |-> i, total |-> n,
                                     result |-> f.results[i]]
            /\ f.tofetch = SubSeq(f.urls, done + 1, n)
            /\ f.pc # "batch" => done = n

\* The second of three urls failed, the third was fetched after it and the
\* callback has been called for the three.
C32_Witness ==
  \E s \in Slots :
    /\ Batching(s)
    /\ flow[s].pc # "batch"
    /\ Len(flow[s].urls) = 3
    /\ ~flow[s].results[2].success
    /\ flow[s].results[3].success
    /\ Len(flow[s].progress) = 3

\* The tags text of a row does not decode.
Undecodable(row) ==
  Has(row, "tags") /\ row.tags # <<>> /\ ~JSONparse(row.tags).ok

\* C33: when the read of the projects finds a row whose tags text does not
\* decode, the read still succeeds: it returns every row, and the tags of
\* that row are the empty sequence.
C33_UndecodableTagsReadAsEmpty ==
  (/\ last.fn = "GET /api/projects"
   /\ last.fault = "none"
   /\ \E r \in Range(last.dbBefore.projects) : Undecodable(r))
    => /\ Has(last.body, "projects")
       /\ Len(last.body.projects) = Len(last.dbBefore.projects)
       /\ \A r \in Range(last.dbBefore.projects) :
            Undecodable(r)
              => \E p \in Range(last.body.projects) : p.id = r.id /\ p.tags = <<>>

\* The endpoints that write
WritingEndpoints ==
  {"POST /api/projects", "PUT /api/projects", "DELETE /api/projects",
   "POST /api/categories", "POST /api/sync"}

\* C39: every token the auth endpoint issues for the right username and
\* password is accepted by verifyAuth on the writing requests that follow,
\* whatever the admin password of the deployment is, one with a colon in it
\* included: the admin page that sends the token it was given is not answered
\* with 401.
C39_IssuedTokenIsAccepted ==
  (/\ last.fn \in WritingEndpoints
   /\ last.client = "admin page"
   /\ last.token # <<>>)
    => /\ verifyAuth(last.authHeader, last.env)
       /\ last.body # unauthorizedResponse

\* The header carries, in the Basic scheme, the base64 text of the admin's
\* username, a colon and the admin's password.
ValidBasic(authHeader, env) ==
  authHeader = BASIC \o btoa(adminUsername(env) \o <<":">> \o adminPassword(env))

\* C40: a writing request (a project POST, PUT or DELETE, a category POST, a
\* sync POST) that carries no valid Basic credentials is answered with the 401
\* body and leaves the tables as they were; the two reads are answered
\* without credentials.
C40_WritesNeedValidCredentials ==
  /\ (last.fn \in WritingEndpoints /\ ~ValidBasic(last.authHeader, last.env))
       => last.body = unauthorizedResponse /\ db = last.dbBefore
  /\ (last.fn \in Endpoints \ WritingEndpoints /\ last.fault = "none"
        /\ \A r \in Range(last.dbBefore.projects) : ~Undecodable(r))
       => ~Has(last.body, "error")

\* The create of the save in slot s has completed and was synced: the remote
\* handler answered success with the project.
SyncedCreate(s) ==
  /\ flow[s].kind = "saveProject"
  /\ flow[s].pc \in {"reload", "done"}
  /\ Truthy(flow[s].wret, "success")
  /\ Has(flow[s].wret, "project")

\* C34: a project whose synced create has completed stays in the local mirror
\* (no project is deleted here), also when the answer to a fetchProjects
\* request sent before the create is delivered after it: the refresh of the
\* mirror by the older read does not discard the newer entry.
C34_SyncedCreateStaysInMirror ==
  \A s \in Slots :
    SyncedCreate(s) => HasRow(getProjects(store), flow[s].wret.project.id)

\* owner and name of a equal those of b when lower-cased
SameRepo(a, b) ==
  /\ toLowerCase(a.owner) = toLowerCase(b.owner)
  /\ toLowerCase(a.name) = toLowerCase(b.name)

Holds(rows, project) == \E i \in 1..Len(rows) : SameRepo(rows[i], project)

\* C35: two saves of new projects with the same owner and name (in any case)
\* that are in flight together cannot both pass the duplicate guard: a save
\* whose check was answered when neither store had such a project does not
\* go on to its create (its request is not sent) once the other save has put
\* one there.
C35_OverlappingSavesCreateOnce ==
  \A s \in Slots :
    (/\ flow[s].kind = "saveProject"
     /\ flow[s].editId = <<>>
     /\ flow[s].pc = "write"
     /\ flow[s].phase = "sent"
     /\ ~Holds(flow[s].dbBefore.projects, flow[s].pdata)
     /\ ~Holds(getProjects(flow[s].start), flow[s].pdata))
      => /\ ~Holds(db.projects, flow[s].pdata)
         /\ ~Holds(getProjects(store), flow[s].pdata)

\* C36: after a bulk import has completed, no two of the projects it created
\* have owner and name equal whatever the case, also when the list of
\* identifiers names the same repository more than once.
C36_BulkImportCreatesEachRepositoryOnce ==
  \A s \in Slots :
    BulkImported(s) =>
      \A i, j \in 1..Len(flow[s].created) :
        SameRepo(flow[s].created[i], flow[s].created[j]) => i = j

\* C37: the projects of the local mirror have pairwise distinct ids, also
\* when several creates that supply no id take their generated id from the
\* same reading of the clock. Stated for the projects the bulk importer has
\* put into the mirror (the ones that carry the github_url it adds): their
\* ids are all generated by the creates of the behaviour observed.
C37_MirrorIdsAreDistinct ==
  LET projects == getProjects(store)
  IN \A i, j \in 1..Len(projects) :
       (/\ Has(projects[i], "github_url")
        /\ Has(projects[j], "github_url")
        /\ projects[i].id = projects[j].id) => i = j

(* ------------------------------------------------------------------------ *)
(* The search bar: the input, the clear button, the debounce timer           *)
(* ------------------------------------------------------------------------ *)

\* The events a visitor makes on the search bar in a behaviour
MaxEvents == 4

\* What the input holds after the visitor has edited it
TypedTexts == {<<" ">>, <<"a">>, <<"a", " ">>, <<"a", "b">>}

\* The keys of the keydown handlers
Keys == {"Escape", "/"}

\* createSearchBar: the input empty, the clear button hidden, no timer; calls
\* lists the queries onSearch has been called with.
InitSearchBar ==
  /\ store = EmptyStore
  /\ db = RemoteSnapshots[1]
  /\ now = 1
  /\ page = "front"
  /\ runs = 0
  /\ flow = [s \in Slots |-> IdleFlow]
  /\ last = [fn |-> "createSearchBar", value |-> <<>>, clearBtn |-> "none",
             debounceTimer |-> FALSE, query |-> <<>>, calls |-> <<>>,
             key |-> "none"]

\* The input handler: the value trimmed, the clear button shown for a
\* non-empty query, the timer cleared and set again with the query it will
\* pass to onSearch.
InputEvent(text) ==
  /\ runs < MaxEvents
  /\ runs' = runs + 1
  /\ LET query == trim(text)
     IN last' = [last EXCEPT !.fn = "input", !.value = text,
                             !.clearBtn = IF query # <<>> THEN "flex" ELSE "none",
                             !.debounceTimer = TRUE, !.query = query]
  /\ UNCHANGED <<store, db, now, page, flow>>

\* The callback of the timer: onSearch(query), the query captured when the
\* timer was set.
timerCallback(query, value) == query

\* debounceMs have passed since the timer was set.
DebounceFires ==
  /\ last.debounceTimer
  /\ last' = [last EXCEPT !.fn = "timeout", !.debounceTimer = FALSE,
                          !.calls = Append(@, timerCallback(last.query, last.value))]
  /\ UNCHANGED <<store, db, now, page, runs, flow>>

\* The click handler of the clear button, which can be clicked while shown:
\* the input emptied, the button hidden, onSearch(''). The timer is left as
\* it is.
ClearClick ==
  /\ runs < MaxEvents
  /\ runs' = runs + 1
  /\ last.clearBtn = "flex"
  /\ last' = [last EXCEPT !.fn = "click", !.value = <<>>, !.clearBtn = "none",
                          !.calls = Append(@, <<>>)]
  /\ UNCHANGED <<store, db, now, page, flow>>

\* The keydown handlers: Escape empties the input, hides the button and calls
\* onSearch(''), the timer left as it is; '/' only moves the focus.
KeyDown(key) ==
  /\ runs < MaxEvents
  /\ runs' = runs + 1
  /\ last' = IF key = "Escape"
             THEN [last EXCEPT !.fn = "keydown", !.key = key, !.value = <<>>,
                               !.clearBtn = "none", !.calls = Append(@, <<>>)]
             ELSE [last EXCEPT !.fn = "keydown", !.key = key]
  /\ UNCHANGED <<store, db, now, page, flow>>

NextSearchBar ==
  \/ \E text \in TypedTexts : InputEvent(text)
  \/ DebounceFires
  \/ ClearClick
  \/ \E key \in Keys : KeyDown(key)

SpecSearchBar == InitSearchBar /\ [][NextSearchBar]_vars

\* C38: the last call of onSearch carries the current trimmed value of the
\* input: once no debounce timer is pending, the query onSearch was last
\* called with is the trimmed value, so that after the clear button or Escape
\* has emptied the input and called onSearch('') no timer set before calls
\* onSearch with the earlier query.
C38_LastSearchIsCurrentValue ==
  (~last.debounceTimer /\ last.calls # <<>>) =>
    last.calls[Len(last.calls)] = trim(last.value)

====
